---- MODULE Spec2Model ----
(***************************************************************************)
(* A model of the Sudoku puzzle engine of js/generator.js: placement and   *)
(* grid validation, the randomized backtracking fill, the deterministic    *)
(* solver, the capped solution counter and the puzzle generator.           *)
(*                                                                         *)
(* A grid is a JavaScript array of rows; it is modelled as a sequence of   *)
(* sequences, so the cell the source writes grid[row][col] (row, col in    *)
(* 0..8) is grid[row + 1][col + 1] here.                                   *)
(***************************************************************************)
EXTENDS Integers, Sequences, FiniteSets, TLC

(***************************************************************************)
(* Grid helpers.                                                           *)
(***************************************************************************)
Idx == 0 .. 8

Cell(grid, row, col) == grid[row + 1][col + 1]

SetCell(grid, row, col, num) == [grid EXCEPT ![row + 1][col + 1] = num]

\* Array.from({ length: 9 }, () => Array(9).fill(0))
EmptyGrid == [r \in 1 .. 9 |-> [c \in 1 .. 9 |-> 0]]

\* puzzle.map(row => [...row]): a cell-by-cell copy of the rows.
CopyGrid(grid) == [r \in 1 .. Len(grid) |-> [c \in 1 .. Len(grid[r]) |-> grid[r][c]]]

(***************************************************************************)
(* findEmptyCell: the first zero in row-major order, as <<row, col>>, or   *)
(* <<>> for the source's null.                                             *)
(***************************************************************************)
\* A variant of firstZeroCol that takes a cell holding 1 for empty too.
RECURSIVE firstZeroOrOneCol(_, _, _)
firstZeroOrOneCol(grid, row, col) ==
    IF col > 8 THEN col
    ELSE IF Cell(grid, row, col) <= 1 THEN col
    ELSE firstZeroOrOneCol(grid, row, col + 1)

\* The inner loop over col, from col on: the first zero of the row, or 9.
RECURSIVE firstZeroCol(_, _, _)
firstZeroCol(grid, row, col) ==
    IF col > 8 THEN col
    ELSE IF Cell(grid, row, col) = 0 THEN col
    ELSE firstZeroCol(grid, row, col + 1)

\* A variant of findEmptyFrom that scans the rows from the last one up.
RECURSIVE findEmptyFromBottom(_, _)
findEmptyFromBottom(grid, row) ==
    IF row > 8 THEN <<>>
    ELSE LET col == firstZeroCol(grid, 8 - row, 0)
         IN  IF col <= 8 THEN <<8 - row, col>> ELSE findEmptyFromBottom(grid, row + 1)

\* The outer loop over row, from row on.
RECURSIVE findEmptyFrom(_, _)
findEmptyFrom(grid, row) ==
    IF row > 8 THEN <<>>
    ELSE LET col == firstZeroCol(grid, row, 0)
         IN  IF col <= 8 THEN <<row, col>> ELSE findEmptyFrom(grid, row + 1)

findEmptyCell(grid) == findEmptyFrom(grid, 0)

\* A variant of validateColumn that accepts every column.
validateColumnSkipped(grid, colIndex) == TRUE

\* A variant of isValidPlacement that checks the row and the column only.
isValidPlacementNoBox(grid, row, col, num) ==
    /\ \A c \in Idx : Cell(grid, row, c) # num
    /\ \A r \in Idx : Cell(grid, r, col) # num

\* A variant of isValidPlacement that checks the column and the box only.
isValidPlacementNoRow(grid, row, col, num) ==
    LET boxRow == (row \div 3) * 3
        boxCol == (col \div 3) * 3
    IN  /\ \A r \in Idx : Cell(grid, r, col) # num
        /\ \A r \in boxRow .. boxRow + 2 :
               \A c \in boxCol .. boxCol + 2 : Cell(grid, r, c) # num

(***************************************************************************)
(* isValidPlacement: num occurs neither in the row, nor in the column, nor *)
(* in the 3x3 box of (row, col).                                           *)
(***************************************************************************)
isValidPlacement(grid, row, col, num) ==
    LET boxRow == (row \div 3) * 3
        boxCol == (col \div 3) * 3
    IN  /\ \A c \in Idx : Cell(grid, row, c) # num
        /\ \A r \in Idx : Cell(grid, r, col) # num
        /\ \A r \in boxRow .. boxRow + 2 :
               \A c \in boxCol .. boxCol + 2 : Cell(grid, r, c) # num

(***************************************************************************)
(* validateRow / validateColumn / validateSubgrid: scan the region, skip   *)
(* zeros, fail on a value outside 1..9 or on a repeated value.  regionOk   *)
(* is the shared loop body over the region's cells in scan order.          *)
(***************************************************************************)
RECURSIVE regionOk(_, _, _)
regionOk(cells, i, seen) ==
    IF i > Len(cells) THEN TRUE
    ELSE LET num == cells[i]
         IN  IF num = 0 THEN regionOk(cells, i + 1, seen)
             ELSE IF num < 1 \/ num > 9 THEN FALSE
             ELSE IF num \in seen THEN FALSE
             ELSE regionOk(cells, i + 1, seen \cup {num})

\* A variant of validateRow whose loop stops one column early.
validateRowShort(grid, rowIndex) ==
    regionOk([i \in 1 .. 8 |-> Cell(grid, rowIndex, i - 1)], 1, {})

validateRow(grid, rowIndex) ==
    regionOk([i \in 1 .. 9 |-> Cell(grid, rowIndex, i - 1)], 1, {})

validateColumn(grid, colIndex) ==
    regionOk([i \in 1 .. 9 |-> Cell(grid, i - 1, colIndex)], 1, {})

validateSubgrid(grid, boxStartRow, boxStartCol) ==
    regionOk([i \in 1 .. 9 |-> Cell(grid, boxStartRow + ((i - 1) \div 3),
                                          boxStartCol + ((i - 1) % 3))], 1, {})

(***************************************************************************)
(* isValidGrid(grid, requireComplete).  Null, the model of a null or       *)
(* missing array, is a function whose domain holds -1; an array is a       *)
(* sequence, whose domain never does.                                      *)
(***************************************************************************)
Null == [x \in {-1} |-> -1]

IsNull(v) == -1 \in DOMAIN v

isValidGrid(grid, requireComplete) ==
    IF IsNull(grid) \/ Len(grid) # 9 THEN FALSE
    ELSE IF \E row \in Idx : IsNull(grid[row + 1]) \/ Len(grid[row + 1]) # 9 THEN FALSE
    ELSE IF requireComplete /\ \E row \in Idx : \E col \in Idx : Cell(grid, row, col) = 0
         THEN FALSE
    ELSE /\ \A row \in Idx : validateRow(grid, row)
         /\ \A col \in Idx : validateColumn(grid, col)
         /\ \A boxRow \in {0, 3, 6} : \A boxCol \in {0, 3, 6} :
                validateSubgrid(grid, boxRow, boxCol)

(***************************************************************************)
(* Math.random is modelled as a linear congruential generator over         *)
(* 0 .. RandModulus - 1; a draw r stands for the fraction r / RandModulus  *)
(* of [0, 1), and Math.floor(Math.random() * n) is (r * n) \div            *)
(* RandModulus.  Which stream a run sees is fixed by its seed.             *)
(***************************************************************************)
RandModulus == 2 ^ 16 + 1

NextRand(s) == (s * 75 + 74) % RandModulus

RandomInt(s, n) == (NextRand(s) * n) \div RandModulus

\* The swaps of shuffleArray for i = i .. 1 (0-based indices of the source).
RECURSIVE shuffleFrom(_, _, _)
shuffleFrom(shuffled, i, s) ==
    IF i <= 0 THEN [array |-> shuffled, rng |-> s]
    ELSE LET j == RandomInt(s, i + 1)
             swapped == [shuffled EXCEPT ![i + 1] = shuffled[j + 1],
                                         ![j + 1] = shuffled[i + 1]]
         IN  shuffleFrom(swapped, i - 1, NextRand(s))

\* shuffleArray returns a shuffled copy; the model also returns the state
\* of the random stream after its draws.
shuffleArray(array, s) == shuffleFrom(array, Len(array) - 1, s)

(***************************************************************************)
(* Bounds of the model.                                                    *)
(***************************************************************************)
\* The runs start from the seeds 0 .. NumSeeds - 1 of the random stream.
NumSeeds == 2

\* The invoked function's maxAttempts is drawn from 0 .. MaxAttemptsArg.
MaxAttemptsArg == 1

\* The call stack holds MaxDepth nested calls of generatePuzzle by itself;
\* the next one fails with RangeError: Maximum call stack size exceeded.
MaxDepth == 2

\* For 'hard' and 'superhard' a run is followed through the first
\* MaxUniqueChecks entries of the removal queue.
MaxUniqueChecks == 40

(***************************************************************************)
(* The program state.  The three backtracking searches (fillGrid,          *)
(* solveGrid, countSolutions) recurse in the source; here the call stack   *)
(* is the variable stack, one frame per active call that has reached its   *)
(* loop, and the grid they write in place is the variable grid.            *)
(***************************************************************************)
VARIABLES
    op,           \* the function the caller invoked
    pc,           \* the position of the running code
    rng,          \* the state of the random stream
    difficulty,   \* generatePuzzle's argument
    maxAttempts,  \* the argument of the invoked generateSolution / generatePuzzle
    requireComplete, \* the argument of the invoked isValidGrid
    first,        \* in solve(solve(p)): what the inner call returned, null before
    attempt,      \* generatePuzzle's loop variable
    depth,        \* how many times generatePuzzle has called itself
    gsMax,        \* maxAttempts of the running generateSolution
    gsAttempt,    \* generateSolution's loop variable; gsMax in the final attempt
    grid,         \* the grid the running search writes in place
    stack,        \* the frames of the running search
    count,        \* countSolutions' shared counter, count.value
    ret,          \* the value the search call that last returned gave back
    solution,     \* generatePuzzle's solution
    puzzle,       \* generatePuzzle's puzzle; the argument of solve and the others
    targetClues,  \* generatePuzzle's targetClues
    boxes,        \* generatePuzzle's boxes: the positions of each 3x3 box
    boxIdx,       \* the index of the box boxes.forEach is at
    positions,    \* generatePuzzle's removal queue
    k,            \* the index in positions of the loop over the removal queue
    removed,      \* generatePuzzle's removed
    backup,       \* generatePuzzle's backup of the cell it has just zeroed
    result        \* what the invoked function returned

\* The state of the calls that are not part of the generator and the solver.
VARIABLES
    argRow,       \* rowIndex of validateRow, boxStartRow of validateSubgrid
    argCol        \* colIndex of validateColumn, boxStartCol of validateSubgrid

regionVars == <<argRow, argCol>>

\* The rest of the game snapshot findHint reads besides puzzle and solution.
VARIABLES
    userEntries,  \* state.userEntries
    official      \* state.official

snapshotVars == <<userEntries, official>>

\* The game, game.js, and its history, SudokuHistory of generator.js.
VARIABLES
    candidates,          \* state.candidates: a set of numbers per cell
    lives,               \* state.lives
    isGameOver,          \* state.isGameOver
    instantCheckEnabled, \* settings.instantCheckEnabled
    livesEnabled,        \* settings.livesEnabled
    candidateMode,       \* SudokuInput.candidateMode
    undoStack,           \* SudokuHistory.undoStack
    redoStack,           \* SudokuHistory.redoStack
    moves                \* the number of handlers run since startNewGame

gameVars == <<candidates, lives, isGameOver, instantCheckEnabled, livesEnabled,
              candidateMode, undoStack, redoStack, moves>>

\* The settings the game's handlers do not read, and the bound of the run.
VARIABLES
    zenMode,             \* settings.zenMode
    timerEnabled,        \* settings.timerEnabled
    moveLimit            \* the number of handlers the run is followed for

settingsVars == <<zenMode, timerEnabled, moveLimit>>

extVars == <<regionVars, snapshotVars, gameVars, settingsVars>>

vars == <<op, pc, rng, difficulty, maxAttempts, requireComplete, first, attempt, depth, gsMax, gsAttempt,
          grid, stack, count, ret, solution, puzzle, targetClues, boxes, boxIdx,
          positions, k, removed, backup, result, extVars>>

\* No region validation is called.
InitRegionIdle == argRow = 0 /\ argCol = 0

\* No game is running: no entry and no official cell.
InitSnapshotIdle ==
    /\ userEntries = EmptyGrid
    /\ official = [r \in 1 .. 9 |-> [c \in 1 .. 9 |-> FALSE]]

\* Array.from({ length: 9 }, () => Array.from({ length: 9 }, () => new Set()))
EmptyCandidates == [r \in 1 .. 9 |-> [c \in 1 .. 9 |-> {}]]

MAX_LIVES == 3

MaxMoves == 3

\* The game after init(), before any handler runs.
InitGameIdle ==
    /\ candidates = EmptyCandidates
    /\ lives = MAX_LIVES
    /\ isGameOver = FALSE
    /\ instantCheckEnabled = TRUE
    /\ livesEnabled = TRUE
    /\ candidateMode = FALSE
    /\ undoStack = <<>>
    /\ redoStack = <<>>
    /\ moves = 0
    /\ zenMode = FALSE
    /\ timerEnabled = TRUE
    /\ moveLimit = MaxMoves

InitExtIdle == InitRegionIdle /\ InitSnapshotIdle /\ InitGameIdle

searchVars == <<grid, stack, count, ret>>
genSolVars == <<gsMax, gsAttempt>>
genPuzVars == <<difficulty, attempt, depth, solution, puzzle, targetClues,
                boxes, boxIdx, positions, k, removed, backup>>

Top(s) == s[Len(s)]
Pop(s) == SubSeq(s, 1, Len(s) - 1)
SetTop(s, f) == [s EXCEPT ![Len(s)] = f]

\* A variant of undoPlacement that leaves the placed number in the cell.
undoPlacementSkipped(g, row, col) == g

\* grid[row][col] = 0 after a recursive call: the search takes back its
\* placement.
undoPlacement(g, row, col) == SetCell(g, row, col, 0)

\* Whether the grid under search is the caller's own array: countSolutions
\* works on its argument, solve and hasUniqueSolution on a copy of theirs.
searchesArgument == op = "countSolutions"

(***************************************************************************)
(* fillGrid.  A frame holds the cell, the shuffled numbers and the index   *)
(* of the number the for loop is at.                                       *)
(***************************************************************************)
\* The first index i >= from with isValidPlacement(grid, row, col, numbers[i]),
\* or Len(numbers) + 1: the numbers the loop passes over without a write.
\* A variant of nextValidIndex that takes the next number without the test.
nextValidIndexUnchecked(g, row, col, numbers, from) == from

RECURSIVE nextValidIndex(_, _, _, _, _)
nextValidIndex(g, row, col, numbers, from) ==
    IF from > Len(numbers) THEN from
    ELSE IF isValidPlacement(g, row, col, numbers[from]) THEN from
    ELSE nextValidIndex(g, row, col, numbers, from + 1)

\* Entry of fillGrid(grid): return true on a full grid, else shuffle 1..9
\* and enter the loop.
FillGrid_Enter ==
    /\ pc = "fill_enter"
    /\ LET emptyCell == findEmptyCell(grid)
           sh == shuffleArray(<<1, 2, 3, 4, 5, 6, 7, 8, 9>>, rng)
       IN  IF emptyCell = <<>>
           THEN /\ ret' = TRUE
                /\ pc' = "fill_ret"
                /\ UNCHANGED <<stack, rng>>
           ELSE /\ stack' = Append(stack, [row |-> emptyCell[1], col |-> emptyCell[2],
                                           numbers |-> sh.array, i |-> 1])
                /\ rng' = sh.rng
                /\ pc' = "fill_loop"
                /\ UNCHANGED ret
    /\ UNCHANGED <<grid, count>>
    /\ UNCHANGED extVars
    /\ UNCHANGED <<op, maxAttempts, requireComplete, first, result>>
    /\ UNCHANGED genSolVars
    /\ UNCHANGED genPuzVars

\* The for loop of fillGrid up to its next write: place the next number
\* that is valid and call fillGrid, or return false when none is left.
FillGrid_Try ==
    /\ pc = "fill_loop"
    /\ LET f == Top(stack)
           i == nextValidIndex(grid, f.row, f.col, f.numbers, f.i)
       IN  IF i > Len(f.numbers)
           THEN /\ stack' = Pop(stack)
                /\ ret' = FALSE
                /\ pc' = "fill_ret"
                /\ UNCHANGED grid
           ELSE /\ grid' = SetCell(grid, f.row, f.col, f.numbers[i])
                /\ stack' = SetTop(stack, [f EXCEPT !.i = i])
                /\ pc' = "fill_enter"
                /\ UNCHANGED ret
    /\ UNCHANGED <<count, rng>>
    /\ UNCHANGED extVars
    /\ UNCHANGED <<op, maxAttempts, requireComplete, first, result>>
    /\ UNCHANGED genSolVars
    /\ UNCHANGED genPuzVars

\* A fillGrid call has returned ret: to generateSolution when no frame is
\* left, else to the frame that called it, which returns true or undoes its
\* placement and goes on with the next number.
FillGrid_Return ==
    /\ pc = "fill_ret"
    /\ IF stack = <<>>
       THEN /\ pc' = "gs_validate"
            /\ UNCHANGED <<grid, stack>>
       ELSE LET f == Top(stack)
            IN  IF ret
                THEN /\ stack' = Pop(stack)
                     /\ pc' = "fill_ret"
                     /\ UNCHANGED grid
                ELSE /\ grid' = undoPlacement(grid, f.row, f.col)
                     /\ stack' = SetTop(stack, [f EXCEPT !.i = f.i + 1])
                     /\ pc' = "fill_loop"
    /\ UNCHANGED <<count, ret, rng>>
    /\ UNCHANGED extVars
    /\ UNCHANGED <<op, maxAttempts, requireComplete, first, result>>
    /\ UNCHANGED genSolVars
    /\ UNCHANGED genPuzVars

(***************************************************************************)
(* generateSolution(maxAttempts).                                          *)
(***************************************************************************)
\* Both the loop body (gsAttempt < gsMax) and the final attempt after the
\* loop build an empty grid and call fillGrid on it.
GenerateSolution_Attempt ==
    /\ pc = "gs_begin"
    /\ grid' = EmptyGrid
    /\ stack' = <<>>
    /\ pc' = "fill_enter"
    /\ UNCHANGED <<count, ret, rng>>
    /\ UNCHANGED extVars
    /\ UNCHANGED <<op, maxAttempts, requireComplete, first, result>>
    /\ UNCHANGED genSolVars
    /\ UNCHANGED genPuzVars

\* The validation after fillGrid.  In the loop a valid grid is returned and
\* an invalid one starts the next attempt; after the loop an invalid grid
\* makes generateSolution call itself with the same maxAttempts.
GenerateSolution_Validate ==
    /\ pc = "gs_validate"
    /\ IF isValidGrid(grid, TRUE)
       THEN IF op = "generateSolution"
            THEN /\ result' = grid
                 /\ pc' = "done"
                 /\ UNCHANGED <<solution, gsAttempt>>
            ELSE /\ solution' = grid
                 /\ pc' = "gp_setup"
                 /\ UNCHANGED <<result, gsAttempt>>
       ELSE /\ gsAttempt' = IF gsAttempt < gsMax THEN gsAttempt + 1 ELSE 0
            /\ pc' = "gs_begin"
            /\ UNCHANGED <<result, solution>>
    /\ UNCHANGED <<grid, stack, count, ret, rng>>
    /\ UNCHANGED extVars
    /\ UNCHANGED <<op, maxAttempts, requireComplete, first, gsMax>>
    /\ UNCHANGED <<difficulty, attempt, depth, puzzle, targetClues, boxes, boxIdx,
                   positions, k, removed, backup>>

(***************************************************************************)
(* countSolutions(grid, count).  A frame holds the cell and num, the loop  *)
(* variable.                                                               *)
(***************************************************************************)
\* A variant of nextValidNum that takes the first num without the test.
firstNum(g, row, col, from) == from

\* The first num in from .. 9 with isValidPlacement(grid, row, col, num), or 10.
RECURSIVE nextValidNum(_, _, _, _)
nextValidNum(g, row, col, from) ==
    IF from > 9 THEN from
    ELSE IF isValidPlacement(g, row, col, from) THEN from
    ELSE nextValidNum(g, row, col, from + 1)

\* A variant of countLimitReached that stops at the first solution.
countLimitReachedAtOne(c) == c > 0

\* The pruning test of countSolutions, count.value > 1.
countLimitReached(c) == c > 1

\* Entry of countSolutions: return at once when two solutions are known,
\* count a full grid, else enter the loop at the first empty cell.
CountSolutions_Enter ==
    /\ pc = "count_enter"
    /\ LET emptyCell == findEmptyCell(grid)
       IN  IF countLimitReached(count)
           THEN /\ pc' = "count_ret"
                /\ UNCHANGED <<count, stack>>
           ELSE IF emptyCell = <<>>
           THEN /\ count' = count + 1
                /\ pc' = "count_ret"
                /\ UNCHANGED stack
           ELSE /\ stack' = Append(stack, [row |-> emptyCell[1], col |-> emptyCell[2],
                                           num |-> 1])
                /\ pc' = "count_loop"
                /\ UNCHANGED count
    /\ UNCHANGED <<grid, ret, rng>>
    /\ UNCHANGED extVars
    /\ UNCHANGED <<op, maxAttempts, requireComplete, first, result>>
    /\ UNCHANGED genSolVars
    /\ UNCHANGED genPuzVars

\* The for loop of countSolutions up to its next write: place the next
\* valid num and call countSolutions, or return when the loop is over.
CountSolutions_Try ==
    /\ pc = "count_loop"
    /\ LET f == Top(stack)
           num == nextValidNum(grid, f.row, f.col, f.num)
       IN  IF num > 9
           THEN /\ stack' = Pop(stack)
                /\ pc' = "count_ret"
                /\ UNCHANGED grid
           ELSE /\ grid' = SetCell(grid, f.row, f.col, num)
                /\ stack' = SetTop(stack, [f EXCEPT !.num = num])
                /\ pc' = "count_enter"
    /\ UNCHANGED <<count, ret, rng>>
    /\ UNCHANGED extVars
    /\ UNCHANGED <<op, maxAttempts, requireComplete, first, result>>
    /\ UNCHANGED genSolVars
    /\ UNCHANGED genPuzVars

\* A variant of isUniqueCount that accepts every count but 0.
isUniqueCountAtLeastOne(c) == c >= 1

\* hasUniqueSolution's verdict on the count: countSolutions(copy) === 1.
isUniqueCount(c) == c = 1

\* A countSolutions call has returned: to its caller when no frame is left
\* (hasUniqueSolution compares the count with 1), else to the frame that
\* called it, which zeroes its cell and returns once two solutions are
\* known or goes on with the next num.
CountSolutions_Return ==
    /\ pc = "count_ret"
    /\ IF stack = <<>>
       THEN /\ IF op = "generatePuzzle"
               THEN pc' = "gp_checked" /\ UNCHANGED result
               ELSE /\ result' = IF op = "hasUniqueSolution" THEN isUniqueCount(count) ELSE count
                    /\ pc' = "done"
            /\ UNCHANGED <<grid, stack>>
       ELSE LET f == Top(stack)
            IN  /\ grid' = undoPlacement(grid, f.row, f.col)
                /\ IF countLimitReached(count)
                   THEN stack' = Pop(stack) /\ pc' = "count_ret"
                   ELSE /\ stack' = SetTop(stack, [f EXCEPT !.num = f.num + 1])
                        /\ pc' = "count_loop"
                /\ UNCHANGED result
    /\ UNCHANGED <<count, ret, rng>>
    /\ UNCHANGED extVars
    /\ UNCHANGED <<op, maxAttempts, requireComplete, first>>
    /\ UNCHANGED genSolVars
    /\ UNCHANGED genPuzVars

(***************************************************************************)
(* solve(puzzle) and solveGrid(grid).  A frame is as in countSolutions.    *)
(***************************************************************************)
SolveGrid_Enter ==
    /\ pc = "solve_enter"
    /\ LET emptyCell == findEmptyCell(grid)
       IN  IF emptyCell = <<>>
           THEN /\ ret' = TRUE
                /\ pc' = "solve_ret"
                /\ UNCHANGED stack
           ELSE /\ stack' = Append(stack, [row |-> emptyCell[1], col |-> emptyCell[2],
                                           num |-> 1])
                /\ pc' = "solve_loop"
                /\ UNCHANGED ret
    /\ UNCHANGED <<grid, count, rng>>
    /\ UNCHANGED extVars
    /\ UNCHANGED <<op, maxAttempts, requireComplete, first, result>>
    /\ UNCHANGED genSolVars
    /\ UNCHANGED genPuzVars

SolveGrid_Try ==
    /\ pc = "solve_loop"
    /\ LET f == Top(stack)
           num == nextValidNum(grid, f.row, f.col, f.num)
       IN  IF num > 9
           THEN /\ stack' = Pop(stack)
                /\ ret' = FALSE
                /\ pc' = "solve_ret"
                /\ UNCHANGED grid
           ELSE /\ grid' = SetCell(grid, f.row, f.col, num)
                /\ stack' = SetTop(stack, [f EXCEPT !.num = num])
                /\ pc' = "solve_enter"
                /\ UNCHANGED ret
    /\ UNCHANGED <<count, rng>>
    /\ UNCHANGED extVars
    /\ UNCHANGED <<op, maxAttempts, requireComplete, first, result>>
    /\ UNCHANGED genSolVars
    /\ UNCHANGED genPuzVars

\* A solveGrid call has returned ret: to solve when no frame is left, which
\* returns the grid or null, else to the frame that called it.
SolveGrid_Return ==
    /\ pc = "solve_ret"
    /\ IF stack = <<>>
       THEN /\ result' = IF ret THEN grid ELSE Null
            /\ pc' = "done"
            /\ UNCHANGED <<grid, stack>>
       ELSE LET f == Top(stack)
            IN  /\ IF ret
                   THEN /\ stack' = Pop(stack)
                        /\ pc' = "solve_ret"
                        /\ UNCHANGED grid
                   ELSE /\ grid' = undoPlacement(grid, f.row, f.col)
                        /\ stack' = SetTop(stack, [f EXCEPT !.num = f.num + 1])
                        /\ pc' = "solve_loop"
                /\ UNCHANGED result
    /\ UNCHANGED <<count, ret, rng>>
    /\ UNCHANGED extVars
    /\ UNCHANGED <<op, maxAttempts, requireComplete, first>>
    /\ UNCHANGED genSolVars
    /\ UNCHANGED genPuzVars

(***************************************************************************)
(* generatePuzzle(difficulty, maxAttempts).                                *)
(***************************************************************************)
DefaultMaxAttempts == 10

\* The number NaN, which no comparison holds for and which every sum and
\* difference it enters yields.
NaN == 0 - 1

\* The names clueRanges, an object literal, inherits from Object.prototype;
\* clueRanges[name] is then a function or an object, which is truthy and
\* has no min and no max.
InheritedNames == {"constructor", "toString", "valueOf", "hasOwnProperty", "__proto__"}

\* clueRanges[difficulty] || clueRanges.easy, with range.min and range.max
\* as the arithmetic of the next line reads them: undefined counts as NaN.
clueRange(d) ==
    CASE d = "easy"      -> [min |-> 45, max |-> 50]
      [] d = "medium"    -> [min |-> 28, max |-> 32]
      [] d = "hard"      -> [min |-> 22, max |-> 26]
      [] d = "superhard" -> [min |-> 17, max |-> 20]
      [] d \in InheritedNames -> [min |-> NaN, max |-> NaN]
      [] OTHER           -> [min |-> 45, max |-> 50]

checksUniqueness(d) == d = "hard" \/ d = "superhard"

cellsToRemove == IF targetClues = NaN THEN NaN ELSE 81 - targetClues

\* boxes[boxIndex]: the positions of a box, pushed in row-major order.
boxPositions(boxIndex) ==
    [i \in 1 .. 9 |-> <<(boxIndex \div 3) * 3 + ((i - 1) \div 3),
                        (boxIndex % 3) * 3 + ((i - 1) % 3)>>]

\* A variant of interleave that takes the boxes one after the other.
interleaveByBox(bxs, boxOrder) ==
    [n \in 1 .. 81 |-> bxs[boxOrder[((n - 1) \div 9) + 1] + 1][((n - 1) % 9) + 1]]

\* positions: round i takes the i-th position of every box, in boxOrder.
interleave(bxs, boxOrder) ==
    [n \in 1 .. 81 |-> bxs[boxOrder[((n - 1) % 9) + 1] + 1][((n - 1) \div 9) + 1]]

\* The head of the loop over maxAttempts: call generateSolution(), or, once
\* the loop is over, call generatePuzzle(difficulty, maxAttempts) again; the
\* call that the stack has no room for throws.
GeneratePuzzle_Attempt ==
    /\ pc = "gp_loop"
    /\ IF attempt < maxAttempts
       THEN /\ gsMax' = DefaultMaxAttempts
            /\ gsAttempt' = 0
            /\ pc' = "gs_begin"
            /\ UNCHANGED <<attempt, depth>>
       ELSE IF depth < MaxDepth
       THEN /\ depth' = depth + 1
            /\ attempt' = 0
            /\ pc' = "gp_loop"
            /\ UNCHANGED genSolVars
       ELSE /\ pc' = "thrown"
            /\ UNCHANGED <<attempt, depth>>
            /\ UNCHANGED genSolVars
    /\ UNCHANGED searchVars
    /\ UNCHANGED extVars
    /\ UNCHANGED <<op, maxAttempts, requireComplete, first, result, rng>>
    /\ UNCHANGED <<difficulty, solution, puzzle, targetClues, boxes, boxIdx, positions,
                   k, removed, backup>>

\* From the copy of the solution to the grouping of the positions by box.
GeneratePuzzle_Setup ==
    /\ pc = "gp_setup"
    /\ LET range == clueRange(difficulty)
       IN  targetClues' = IF range.min = NaN \/ range.max = NaN THEN NaN
                          ELSE RandomInt(rng, range.max - range.min + 1) + range.min
    /\ rng' = NextRand(rng)
    /\ puzzle' = CopyGrid(solution)
    /\ boxes' = [b \in 1 .. 9 |-> boxPositions(b - 1)]
    /\ boxIdx' = 0
    /\ pc' = "gp_shuffle"
    /\ UNCHANGED searchVars
    /\ UNCHANGED genSolVars
    /\ UNCHANGED extVars
    /\ UNCHANGED <<op, maxAttempts, requireComplete, first, result>>
    /\ UNCHANGED <<difficulty, attempt, depth, solution, positions, k, removed, backup>>

\* What boxes.forEach(box => this.shuffleArray(box)) leaves in place of box:
\* shuffleArray shuffles a copy and returns it, forEach drops what its
\* callback returns, so box stays as it was.
forEachShuffled(box, shuffled) == box

\* One callback of boxes.forEach: the shuffle draws from the random stream.
GeneratePuzzle_ShuffleBox ==
    /\ pc = "gp_shuffle"
    /\ boxIdx < Len(boxes)
    /\ LET sh == shuffleArray(boxes[boxIdx + 1], rng)
       IN  /\ boxes' = [boxes EXCEPT ![boxIdx + 1] = forEachShuffled(@, sh.array)]
           /\ rng' = sh.rng
    /\ boxIdx' = boxIdx + 1
    /\ UNCHANGED pc
    /\ UNCHANGED searchVars
    /\ UNCHANGED genSolVars
    /\ UNCHANGED extVars
    /\ UNCHANGED <<op, maxAttempts, requireComplete, first, result>>
    /\ UNCHANGED <<difficulty, attempt, depth, solution, puzzle, targetClues, positions,
                   k, removed, backup>>

\* The shuffled box order and the removal queue built from it.
GeneratePuzzle_Order ==
    /\ pc = "gp_shuffle"
    /\ boxIdx = Len(boxes)
    /\ LET bo == shuffleArray(<<0, 1, 2, 3, 4, 5, 6, 7, 8>>, rng)
       IN  /\ positions' = interleave(boxes, bo.array)
           /\ rng' = bo.rng
    /\ removed' = 0
    /\ k' = 1
    /\ pc' = "gp_remove"
    /\ UNCHANGED searchVars
    /\ UNCHANGED genSolVars
    /\ UNCHANGED extVars
    /\ UNCHANGED <<op, maxAttempts, requireComplete, first, result>>
    /\ UNCHANGED <<difficulty, attempt, depth, solution, puzzle, targetClues, boxes,
                   boxIdx, backup>>

\* A variant of removalDone that leaves the loop one removal later.
removalDoneStrict(rem, toRemove) == toRemove # NaN /\ rem > toRemove

\* The loop's exit test, if (removed >= cellsToRemove) break.
removalDone(rem, toRemove) == toRemove # NaN /\ rem >= toRemove

\* A variant of restoreCell that writes the backup to the transposed cell.
restoreCellTransposed(p, row, col, b) == SetCell(p, col, row, b)

\* puzzle[row][col] = backup
restoreCell(p, row, col, b) == SetCell(p, row, col, b)

\* One step of the loop over positions: leave the loop, or zero the cell
\* and either count it removed or call hasUniqueSolution(puzzle), which
\* runs countSolutions on a copy.
GeneratePuzzle_Remove ==
    /\ pc = "gp_remove"
    /\ IF k > Len(positions) \/ removalDone(removed, cellsToRemove)
       THEN /\ pc' = "gp_validate"
            /\ UNCHANGED <<puzzle, backup, removed, k, grid, stack, count>>
       ELSE LET row == positions[k][1]
                col == positions[k][2]
            IN  /\ backup' = Cell(puzzle, row, col)
                /\ puzzle' = SetCell(puzzle, row, col, 0)
                /\ IF checksUniqueness(difficulty)
                   THEN /\ k <= MaxUniqueChecks
                        /\ grid' = CopyGrid(puzzle')
                        /\ stack' = <<>>
                        /\ count' = 0
                        /\ pc' = "count_enter"
                        /\ UNCHANGED <<removed, k>>
                   ELSE /\ removed' = removed + 1
                        /\ k' = k + 1
                        /\ pc' = "gp_remove"
                        /\ UNCHANGED <<grid, stack, count>>
    /\ UNCHANGED <<ret, rng>>
    /\ UNCHANGED genSolVars
    /\ UNCHANGED extVars
    /\ UNCHANGED <<op, maxAttempts, requireComplete, first, result>>
    /\ UNCHANGED <<difficulty, attempt, depth, solution, targetClues, boxes, boxIdx,
                   positions>>

\* hasUniqueSolution has returned count === 1: keep the removal, or restore
\* the cell and go on with the next position.
GeneratePuzzle_Checked ==
    /\ pc = "gp_checked"
    /\ IF isUniqueCount(count)
       THEN /\ removed' = removed + 1
            /\ UNCHANGED puzzle
       ELSE /\ puzzle' = restoreCell(puzzle, positions[k][1], positions[k][2], backup)
            /\ UNCHANGED removed
    /\ k' = k + 1
    /\ pc' = "gp_remove"
    /\ UNCHANGED searchVars
    /\ UNCHANGED genSolVars
    /\ UNCHANGED extVars
    /\ UNCHANGED <<op, maxAttempts, requireComplete, first, result, rng>>
    /\ UNCHANGED <<difficulty, attempt, depth, solution, targetClues, boxes, boxIdx,
                   positions, backup>>

\* The validation of the final puzzle: return it, or start the next attempt.
GeneratePuzzle_Validate ==
    /\ pc = "gp_validate"
    /\ IF isValidGrid(puzzle, FALSE)
       THEN /\ result' = [puzzle |-> puzzle, solution |-> solution]
            /\ pc' = "done"
            /\ UNCHANGED attempt
       ELSE /\ attempt' = attempt + 1
            /\ pc' = "gp_loop"
            /\ UNCHANGED result
    /\ UNCHANGED searchVars
    /\ UNCHANGED genSolVars
    /\ UNCHANGED extVars
    /\ UNCHANGED <<op, maxAttempts, requireComplete, first, rng>>
    /\ UNCHANGED <<difficulty, depth, solution, puzzle, targetClues, boxes, boxIdx,
                   positions, k, removed, backup>>

(***************************************************************************)
(* The generator's runs: generateSolution(maxAttempts) and                 *)
(* generatePuzzle(difficulty, maxAttempts), from every seed.               *)
(***************************************************************************)
Difficulties == {"easy", "medium", "hard", "superhard", "extreme"}

InitGen ==
    /\ op \in {"generateSolution", "generatePuzzle"}
    /\ rng \in 0 .. NumSeeds - 1
    /\ maxAttempts \in 0 .. MaxAttemptsArg
    /\ requireComplete = TRUE
    /\ first = Null
    /\ difficulty \in IF op = "generatePuzzle" THEN Difficulties ELSE {"none"}
    /\ pc = IF op = "generatePuzzle" THEN "gp_loop" ELSE "gs_begin"
    /\ attempt = 0
    /\ depth = 0
    /\ gsMax = IF op = "generateSolution" THEN maxAttempts ELSE 0
    /\ gsAttempt = 0
    /\ grid = EmptyGrid
    /\ stack = <<>>
    /\ count = 0
    /\ ret = FALSE
    /\ solution = EmptyGrid
    /\ puzzle = EmptyGrid
    /\ targetClues = 0
    /\ boxes = <<>>
    /\ boxIdx = 0
    /\ positions = <<>>
    /\ k = 1
    /\ removed = 0
    /\ backup = 0
    /\ result = Null
    /\ InitExtIdle

NextGen ==
    \/ FillGrid_Enter
    \/ FillGrid_Try
    \/ FillGrid_Return
    \/ GenerateSolution_Attempt
    \/ GenerateSolution_Validate
    \/ GeneratePuzzle_Attempt
    \/ GeneratePuzzle_Setup
    \/ GeneratePuzzle_ShuffleBox
    \/ GeneratePuzzle_Order
    \/ GeneratePuzzle_Remove
    \/ GeneratePuzzle_Checked
    \/ GeneratePuzzle_Validate
    \/ CountSolutions_Enter
    \/ CountSolutions_Try
    \/ CountSolutions_Return

SpecGen == InitGen /\ [][NextGen]_vars

\* generatePuzzle(difficulty, maxAttempts) for difficulty values that are
\* none of the four keys of clueRanges: another string, undefined (which
\* the lookup reads as the name "undefined") and an inherited name.
OtherDifficulties == {"extreme", "undefined", "constructor"}

InitGenOther ==
    /\ op = "generatePuzzle"
    /\ rng \in 0 .. NumSeeds - 1
    /\ maxAttempts \in 0 .. MaxAttemptsArg
    /\ requireComplete = TRUE
    /\ first = Null
    /\ difficulty \in OtherDifficulties
    /\ pc = "gp_loop"
    /\ attempt = 0
    /\ depth = 0
    /\ gsMax = 0
    /\ gsAttempt = 0
    /\ grid = EmptyGrid
    /\ stack = <<>>
    /\ count = 0
    /\ ret = FALSE
    /\ solution = EmptyGrid
    /\ puzzle = EmptyGrid
    /\ targetClues = 0
    /\ boxes = <<>>
    /\ boxIdx = 0
    /\ positions = <<>>
    /\ k = 1
    /\ removed = 0
    /\ backup = 0
    /\ result = Null
    /\ InitExtIdle

\* The steps of these runs: hasUniqueSolution is never called.
NextGenOther ==
    \/ FillGrid_Enter
    \/ FillGrid_Try
    \/ FillGrid_Return
    \/ GenerateSolution_Attempt
    \/ GenerateSolution_Validate
    \/ GeneratePuzzle_Attempt
    \/ GeneratePuzzle_Setup
    \/ GeneratePuzzle_ShuffleBox
    \/ GeneratePuzzle_Order
    \/ GeneratePuzzle_Remove
    \/ GeneratePuzzle_Validate

SpecGenOther == InitGenOther /\ [][NextGenOther]_vars

\* generateSolution(maxAttempts) alone, from more seeds, run to its end: no
\* call waits for anything.
NumFillSeeds == 4

InitFill ==
    /\ op = "generateSolution"
    /\ rng \in 0 .. NumFillSeeds - 1
    /\ maxAttempts \in 0 .. MaxAttemptsArg
    /\ requireComplete = TRUE
    /\ first = Null
    /\ difficulty = "none"
    /\ pc = "gs_begin"
    /\ attempt = 0
    /\ depth = 0
    /\ gsMax = maxAttempts
    /\ gsAttempt = 0
    /\ grid = EmptyGrid
    /\ stack = <<>>
    /\ count = 0
    /\ ret = FALSE
    /\ solution = EmptyGrid
    /\ puzzle = EmptyGrid
    /\ targetClues = 0
    /\ boxes = <<>>
    /\ boxIdx = 0
    /\ positions = <<>>
    /\ k = 1
    /\ removed = 0
    /\ backup = 0
    /\ result = Null
    /\ InitExtIdle

NextFill ==
    \/ FillGrid_Enter
    \/ FillGrid_Try
    \/ FillGrid_Return
    \/ GenerateSolution_Attempt
    \/ GenerateSolution_Validate

SpecFill == InitFill /\ [][NextFill]_vars /\ WF_vars(NextFill)

(***************************************************************************)
(* The solver's inputs.  They are built from validGrid, the complete grid  *)
(* of the test suite: the cells holding some digits are blanked, then      *)
(* some cells of a pool are blanked, then one cell may be overwritten.     *)
(* The family holds complete grids, grids with one, with several and with  *)
(* no completion, and grids with a repeated value.                         *)
(***************************************************************************)
validGrid ==
    << <<1, 2, 3, 4, 5, 6, 7, 8, 9>>,
       <<4, 5, 6, 7, 8, 9, 1, 2, 3>>,
       <<7, 8, 9, 1, 2, 3, 4, 5, 6>>,
       <<2, 3, 4, 5, 6, 7, 8, 9, 1>>,
       <<5, 6, 7, 8, 9, 1, 2, 3, 4>>,
       <<8, 9, 1, 2, 3, 4, 5, 6, 7>>,
       <<3, 4, 5, 6, 7, 8, 9, 1, 2>>,
       <<6, 7, 8, 9, 1, 2, 3, 4, 5>>,
       <<9, 1, 2, 3, 4, 5, 6, 7, 8>> >>

\* At most MaxBlanks cells of PoolCells are blanked.
MaxBlanks == 3

\* The overwriting value is drawn from 0 .. MaxPutValue.
MaxPutValue == 2

PoolCells == {<<0, 0>>, <<0, 1>>, <<3, 0>>, <<8, 8>>}

PutCells == {<<0, 0>>, <<0, 8>>}

DigitSets == {{}, {1, 4}}

BlankDigits(g, D) == [r \in 1 .. 9 |-> [c \in 1 .. 9 |-> IF g[r][c] \in D THEN 0 ELSE g[r][c]]]

BlankCells(g, B) ==
    [r \in 1 .. 9 |-> [c \in 1 .. 9 |-> IF <<r - 1, c - 1>> \in B THEN 0 ELSE g[r][c]]]

PartialGrids ==
    {BlankCells(BlankDigits(validGrid, D), B) :
        D \in DigitSets, B \in {X \in SUBSET PoolCells : Cardinality(X) <= MaxBlanks}}

SolverInputs ==
    PartialGrids
    \cup {SetCell(g, c[1], c[2], v) : g \in PartialGrids, c \in PutCells, v \in 0 .. MaxPutValue}
    \cup {EmptyGrid}

(***************************************************************************)
(* The calls of solve, countSolutions and hasUniqueSolution on puzzle, and *)
(* the composition solve(solve(puzzle)) under op = "solveTwice".           *)
(***************************************************************************)
\* solve(puzzle): copy the puzzle and call solveGrid on the copy.
Solve_Call ==
    /\ pc = "call"
    /\ op \in {"solve", "solveTwice"}
    /\ grid' = CopyGrid(puzzle)
    /\ stack' = <<>>
    /\ pc' = "solve_enter"
    /\ UNCHANGED <<count, ret, rng>>
    /\ UNCHANGED extVars
    /\ UNCHANGED <<op, maxAttempts, requireComplete, first, result>>
    /\ UNCHANGED genSolVars
    /\ UNCHANGED genPuzVars

\* The outer call of solve(solve(puzzle)), made when the inner call has
\* returned a grid: solve copies that grid and calls solveGrid on the copy.
SolveTwice_Second ==
    /\ pc = "done"
    /\ op = "solveTwice"
    /\ IsNull(first)
    /\ ~IsNull(result)
    /\ first' = result
    /\ grid' = CopyGrid(result)
    /\ stack' = <<>>
    /\ pc' = "solve_enter"
    /\ UNCHANGED <<count, ret, rng>>
    /\ UNCHANGED extVars
    /\ UNCHANGED <<op, maxAttempts, requireComplete, result>>
    /\ UNCHANGED genSolVars
    /\ UNCHANGED genPuzVars

\* countSolutions(puzzle): the search runs on the argument itself, with the
\* default counter { value: 0 }.
CountSolutions_Call ==
    /\ pc = "call"
    /\ op = "countSolutions"
    /\ grid' = puzzle
    /\ stack' = <<>>
    /\ count' = 0
    /\ pc' = "count_enter"
    /\ UNCHANGED <<ret, rng>>
    /\ UNCHANGED extVars
    /\ UNCHANGED <<op, maxAttempts, requireComplete, first, result>>
    /\ UNCHANGED genSolVars
    /\ UNCHANGED genPuzVars

\* hasUniqueSolution(puzzle): countSolutions on a copy.
HasUniqueSolution_Call ==
    /\ pc = "call"
    /\ op = "hasUniqueSolution"
    /\ grid' = CopyGrid(puzzle)
    /\ stack' = <<>>
    /\ count' = 0
    /\ pc' = "count_enter"
    /\ UNCHANGED <<ret, rng>>
    /\ UNCHANGED extVars
    /\ UNCHANGED <<op, maxAttempts, requireComplete, first, result>>
    /\ UNCHANGED genSolVars
    /\ UNCHANGED genPuzVars

\* The variables no solver or validation run reads or writes.
InitIdle ==
    /\ rng = 0
    /\ maxAttempts = 0
    /\ difficulty = "none"
    /\ attempt = 0
    /\ depth = 0
    /\ gsMax = 0
    /\ gsAttempt = 0
    /\ solution = EmptyGrid
    /\ targetClues = 0
    /\ boxes = <<>>
    /\ boxIdx = 0
    /\ positions = <<>>
    /\ k = 1
    /\ removed = 0
    /\ backup = 0

InitSolve ==
    /\ op \in {"solve", "solveTwice", "countSolutions", "hasUniqueSolution"}
    /\ puzzle \in SolverInputs
    /\ pc = "call"
    /\ requireComplete = TRUE
    /\ first = Null
    /\ grid = EmptyGrid
    /\ stack = <<>>
    /\ count = 0
    /\ ret = FALSE
    /\ result = Null
    /\ InitIdle
    /\ InitExtIdle

NextSolve ==
    \/ Solve_Call
    \/ SolveTwice_Second
    \/ CountSolutions_Call
    \/ HasUniqueSolution_Call
    \/ SolveGrid_Enter
    \/ SolveGrid_Try
    \/ SolveGrid_Return
    \/ CountSolutions_Enter
    \/ CountSolutions_Try
    \/ CountSolutions_Return

\* The program runs on its own: a step that can be taken is taken.
SpecSolve == InitSolve /\ [][NextSolve]_vars /\ WF_vars(NextSolve)

\* The three searches side by side: the runs of generateSolution and the
\* runs of the solver's entry points.
InitSearch == InitFill \/ InitSolve

NextSearch == NextFill \/ NextSolve

SpecSearch == InitSearch /\ [][NextSearch]_vars

(***************************************************************************)
(* The inputs of isValidGrid: the solver's grids with one cell overwritten *)
(* by a value in or next to 0 .. 9, and grids of a wrong shape: null, a    *)
(* row too few or too many, a missing row, a row one entry short or long.  *)
(***************************************************************************)
\* The overwriting value is drawn from 0 - CellMargin .. 9 + CellMargin.
CellMargin == 1

CellGrids ==
    PartialGrids
    \cup {SetCell(g, c[1], c[2], v) : g \in PartialGrids, c \in PutCells, v \in (0 - CellMargin) .. (9 + CellMargin)}

ShapeBases == {validGrid, BlankCells(validGrid, {<<0, 0>>})}

WrongShapes ==
    {Null, <<>>}
    \cup {SubSeq(g, 1, 8) : g \in ShapeBases}
    \cup {Append(g, g[1]) : g \in ShapeBases}
    \cup {[g EXCEPT ![r] = Null] : g \in ShapeBases, r \in 1 .. 9}
    \cup {[g EXCEPT ![r] = SubSeq(g[r], 1, 8)] : g \in ShapeBases, r \in 1 .. 9}
    \cup {[g EXCEPT ![r] = Append(g[r], 0)] : g \in ShapeBases, r \in 1 .. 9}

IsValidGrid_Call ==
    /\ pc = "call"
    /\ op = "isValidGrid"
    /\ result' = isValidGrid(puzzle, requireComplete)
    /\ pc' = "done"
    /\ UNCHANGED searchVars
    /\ UNCHANGED extVars
    /\ UNCHANGED <<op, maxAttempts, requireComplete, first, rng>>
    /\ UNCHANGED genSolVars
    /\ UNCHANGED genPuzVars

InitValid ==
    /\ op = "isValidGrid"
    /\ puzzle \in CellGrids \cup WrongShapes
    /\ requireComplete \in BOOLEAN
    /\ pc = "call"
    /\ first = Null
    /\ grid = EmptyGrid
    /\ stack = <<>>
    /\ count = 0
    /\ ret = FALSE
    /\ result = Null
    /\ InitIdle
    /\ InitExtIdle

NextValid == IsValidGrid_Call

SpecValid == InitValid /\ [][NextValid]_vars

(***************************************************************************)
(* The calls validateRow(grid, rowIndex), validateColumn(grid, colIndex)   *)
(* and validateSubgrid(grid, boxStartRow, boxStartCol) on the 9x9 grids of *)
(* CellGrids, for every row, every column and every box.                   *)
(***************************************************************************)
ValidateRow_Call ==
    /\ pc = "call"
    /\ op = "validateRow"
    /\ result' = validateRow(puzzle, argRow)
    /\ pc' = "done"
    /\ UNCHANGED searchVars
    /\ UNCHANGED extVars
    /\ UNCHANGED <<op, maxAttempts, requireComplete, first, rng>>
    /\ UNCHANGED genSolVars
    /\ UNCHANGED genPuzVars

ValidateColumn_Call ==
    /\ pc = "call"
    /\ op = "validateColumn"
    /\ result' = validateColumn(puzzle, argCol)
    /\ pc' = "done"
    /\ UNCHANGED searchVars
    /\ UNCHANGED extVars
    /\ UNCHANGED <<op, maxAttempts, requireComplete, first, rng>>
    /\ UNCHANGED genSolVars
    /\ UNCHANGED genPuzVars

ValidateSubgrid_Call ==
    /\ pc = "call"
    /\ op = "validateSubgrid"
    /\ result' = validateSubgrid(puzzle, argRow, argCol)
    /\ pc' = "done"
    /\ UNCHANGED searchVars
    /\ UNCHANGED extVars
    /\ UNCHANGED <<op, maxAttempts, requireComplete, first, rng>>
    /\ UNCHANGED genSolVars
    /\ UNCHANGED genPuzVars

InitRegion ==
    /\ op \in {"validateRow", "validateColumn", "validateSubgrid"}
    /\ puzzle \in CellGrids
    /\ argRow \in IF op = "validateRow" THEN Idx
                  ELSE IF op = "validateSubgrid" THEN {0, 3, 6} ELSE {0}
    /\ argCol \in IF op = "validateColumn" THEN Idx
                  ELSE IF op = "validateSubgrid" THEN {0, 3, 6} ELSE {0}
    /\ requireComplete = TRUE
    /\ pc = "call"
    /\ first = Null
    /\ grid = EmptyGrid
    /\ stack = <<>>
    /\ count = 0
    /\ ret = FALSE
    /\ result = Null
    /\ InitIdle
    /\ InitSnapshotIdle
    /\ InitGameIdle

NextRegion ==
    \/ ValidateRow_Call
    \/ ValidateColumn_Call
    \/ ValidateSubgrid_Call

SpecRegion == InitRegion /\ [][NextRegion]_vars

(***************************************************************************)
(* The hint engine, hints.js.  A hint is the record of row, col, number    *)
(* and technique; its explanation, a text built from the same values, is   *)
(* left out.  The source's null is NoHint, the record whose technique is   *)
(* "null"; the parameter candidates is cands.  A loop that returns at its   *)
(* first match yields the least element of the set of matches, in the      *)
(* loop's order.                                                           *)
(***************************************************************************)
NoHint == [row |-> 0, col |-> 0, number |-> 0, technique |-> "null"]

IsNoHint(h) == h.technique = "null"

Least(S) == CHOOSE n \in S : \A m \in S : n <= m

buildCurrentGrid(state) ==
    [r \in 1 .. 9 |-> [c \in 1 .. 9 |->
        IF state.official[r][c] THEN state.puzzle[r][c]
        ELSE IF state.userEntries[r][c] # 0 THEN state.userEntries[r][c]
        ELSE 0]]

\* A variant of getCandidatesForCell that always reads the first box.
getCandidatesForCellFirstBox(g, row, col) ==
    ((1 .. 9 \ {Cell(g, row, c) : c \in Idx}) \ {Cell(g, r, col) : r \in Idx})
        \ {Cell(g, r, c) : r \in 0 .. 2, c \in 0 .. 2}

getCandidatesForCell(g, row, col) ==
    LET boxRow == (row \div 3) * 3
        boxCol == (col \div 3) * 3
    IN  ((1 .. 9 \ {Cell(g, row, c) : c \in Idx}) \ {Cell(g, r, col) : r \in Idx})
            \ {Cell(g, r, c) : r \in boxRow .. boxRow + 2, c \in boxCol .. boxCol + 2}

calculateCandidates(g) ==
    [r \in 1 .. 9 |-> [c \in 1 .. 9 |->
        IF g[r][c] # 0 THEN {} ELSE getCandidatesForCell(g, r - 1, c - 1)]]

\* A variant of findNakedSingle without the check against the solution.
findNakedSingleUnverified(g, cands, state) ==
    LET found == {n \in 0 .. 80 :
                     /\ Cell(g, n \div 9, n % 9) = 0
                     /\ Cardinality(Cell(cands, n \div 9, n % 9)) = 1}
    IN  IF found = {} THEN NoHint
        ELSE LET n == Least(found)
             IN  [row |-> n \div 9, col |-> n % 9,
                  number |-> Least(Cell(cands, n \div 9, n % 9)),
                  technique |-> "Naked Single"]

\* A variant of findNakedSingle that returns the last qualifying cell.
findNakedSingleLast(g, cands, state) ==
    LET found == {n \in 0 .. 80 :
                     /\ Cell(g, n \div 9, n % 9) = 0
                     /\ Cell(cands, n \div 9, n % 9) = {Cell(state.solution, n \div 9, n % 9)}}
    IN  IF found = {} THEN NoHint
        ELSE LET n == CHOOSE x \in found : \A m \in found : m <= x
             IN  [row |-> n \div 9, col |-> n % 9,
                  number |-> Cell(state.solution, n \div 9, n % 9),
                  technique |-> "Naked Single"]

\* The first cell in row-major order that is empty and whose only candidate
\* is the solution's value.
findNakedSingle(g, cands, state) ==
    LET found == {n \in 0 .. 80 :
                     /\ Cell(g, n \div 9, n % 9) = 0
                     /\ Cardinality(Cell(cands, n \div 9, n % 9)) = 1
                     /\ Cell(cands, n \div 9, n % 9)
                            = {Cell(state.solution, n \div 9, n % 9)}}
    IN  IF found = {} THEN NoHint
        ELSE LET n == Least(found)
             IN  [row |-> n \div 9, col |-> n % 9,
                  number |-> Least(Cell(cands, n \div 9, n % 9)),
                  technique |-> "Naked Single"]

\* A variant of findHiddenSingleInRow that takes the first of the possible
\* columns however many there are.
findHiddenSingleInRowFirstOfMany(g, cands, state) ==
    LET possibleCols(row, num) == {col \in Idx : num \in Cell(cands, row, col)}
        found == {m \in 0 .. 80 :
                     LET row == m \div 9
                         num == (m % 9) + 1
                     IN  /\ \A c \in Idx : Cell(g, row, c) # num
                         /\ Cardinality(possibleCols(row, num)) >= 1
                         /\ LET col == Least(possibleCols(row, num))
                            IN  /\ Cardinality(Cell(cands, row, col)) # 1
                                /\ Cell(state.solution, row, col) = num}
    IN  IF found = {} THEN NoHint
        ELSE LET m == Least(found)
                 row == m \div 9
                 num == (m % 9) + 1
             IN  [row |-> row, col |-> Least(possibleCols(row, num)),
                  number |-> num, technique |-> "Hidden Single (Row)"]

\* The loops over (row, num): m stands for row = m \div 9, num = m % 9 + 1.
findHiddenSingleInRow(g, cands, state) ==
    LET possibleCols(row, num) == {col \in Idx : num \in Cell(cands, row, col)}
        found == {m \in 0 .. 80 :
                     LET row == m \div 9
                         num == (m % 9) + 1
                     IN  /\ \A c \in Idx : Cell(g, row, c) # num
                         /\ Cardinality(possibleCols(row, num)) = 1
                         /\ LET col == Least(possibleCols(row, num))
                            IN  /\ Cardinality(Cell(cands, row, col)) # 1
                                /\ Cell(state.solution, row, col) = num}
    IN  IF found = {} THEN NoHint
        ELSE LET m == Least(found)
                 row == m \div 9
                 num == (m % 9) + 1
             IN  [row |-> row, col |-> Least(possibleCols(row, num)),
                  number |-> num, technique |-> "Hidden Single (Row)"]

\* The loops over (col, num): m stands for col = m \div 9, num = m % 9 + 1.
findHiddenSingleInColumn(g, cands, state) ==
    LET possibleRows(col, num) == {row \in Idx : num \in Cell(cands, row, col)}
        found == {m \in 0 .. 80 :
                     LET col == m \div 9
                         num == (m % 9) + 1
                     IN  /\ \A r \in Idx : Cell(g, r, col) # num
                         /\ Cardinality(possibleRows(col, num)) = 1
                         /\ LET row == Least(possibleRows(col, num))
                            IN  /\ Cardinality(Cell(cands, row, col)) # 1
                                /\ Cell(state.solution, row, col) = num}
    IN  IF found = {} THEN NoHint
        ELSE LET m == Least(found)
                 col == m \div 9
                 num == (m % 9) + 1
             IN  [row |-> Least(possibleRows(col, num)), col |-> col,
                  number |-> num, technique |-> "Hidden Single (Column)"]

\* The loops over (boxRow, boxCol, num): m stands for the box m \div 9,
\* with boxRow = box \div 3 and boxCol = box % 3, and num = m % 9 + 1.
\* A cell of the box is its number n of 0 .. 80.
findHiddenSingleInBox(g, cands, state) ==
    LET boxCells(box) ==
            {n \in 0 .. 80 : /\ (n \div 9) \div 3 = box \div 3
                             /\ (n % 9) \div 3 = box % 3}
        possibleCells(box, num) ==
            {n \in boxCells(box) : num \in Cell(cands, n \div 9, n % 9)}
        found == {m \in 0 .. 80 :
                     LET box == m \div 9
                         num == (m % 9) + 1
                     IN  /\ \A n \in boxCells(box) : Cell(g, n \div 9, n % 9) # num
                         /\ Cardinality(possibleCells(box, num)) = 1
                         /\ LET n == Least(possibleCells(box, num))
                            IN  /\ Cardinality(Cell(cands, n \div 9, n % 9)) # 1
                                /\ Cell(state.solution, n \div 9, n % 9) = num}
    IN  IF found = {} THEN NoHint
        ELSE LET m == Least(found)
                 num == (m % 9) + 1
                 n == Least(possibleCells(m \div 9, num))
             IN  [row |-> n \div 9, col |-> n % 9,
                  number |-> num, technique |-> "Hidden Single (Box)"]

\* The first cell in row-major order that is not official and has no entry.
findFallbackHint(state) ==
    LET found == {n \in 0 .. 80 :
                     /\ ~Cell(state.official, n \div 9, n % 9)
                     /\ Cell(state.userEntries, n \div 9, n % 9) = 0}
    IN  IF found = {} THEN NoHint
        ELSE LET n == Least(found)
             IN  [row |-> n \div 9, col |-> n % 9,
                  number |-> Cell(state.solution, n \div 9, n % 9),
                  technique |-> "Process of Elimination"]

findHint(state) ==
    LET g == buildCurrentGrid(state)
        cands == calculateCandidates(g)
        nakedSingle == findNakedSingle(g, cands, state)
        inRow == findHiddenSingleInRow(g, cands, state)
        inColumn == findHiddenSingleInColumn(g, cands, state)
        inBox == findHiddenSingleInBox(g, cands, state)
    IN  IF ~IsNoHint(nakedSingle) THEN nakedSingle
        ELSE IF ~IsNoHint(inRow) THEN inRow
        ELSE IF ~IsNoHint(inColumn) THEN inColumn
        ELSE IF ~IsNoHint(inBox) THEN inBox
        ELSE findFallbackHint(state)

(***************************************************************************)
(* findHint(state) on the snapshots of a game of the test grid: the puzzle *)
(* is the solution with the digits of one set of HintDigitSets and some    *)
(* cells of HintPool emptied, official is true exactly at the puzzle's     *)
(* clues, as startNewGame sets it, and the player has entries, right or    *)
(* wrong, in the empty cells among EntryCells.                             *)
(***************************************************************************)
MaxEntry == 3

HintDigitSets == {{}, {1, 2}, {1, 6}, {4, 7}}

HintPool == {<<0, 0>>, <<8, 1>>, <<0, 2>>, <<3, 1>>, <<8, 3>>}

EntryCells == {<<0, 0>>, <<8, 1>>}

HintPuzzles ==
    {[r \in 1 .. 9 |-> [c \in 1 .. 9 |->
         IF validGrid[r][c] \in D \/ <<r - 1, c - 1>> \in B THEN 0
         ELSE validGrid[r][c]]] : D \in HintDigitSets, B \in SUBSET HintPool}

EntriesFor(p) ==
    {[r \in 1 .. 9 |-> [c \in 1 .. 9 |->
         IF <<r - 1, c - 1>> \in EntryCells /\ p[r][c] = 0
         THEN e[<<r - 1, c - 1>>] ELSE 0]] : e \in [EntryCells -> 0 .. MaxEntry]}

Snapshot ==
    [puzzle |-> puzzle, userEntries |-> userEntries,
     official |-> official, solution |-> solution]

FindHint_Call ==
    /\ pc = "call"
    /\ op = "findHint"
    /\ result' = findHint(Snapshot)
    /\ pc' = "done"
    /\ UNCHANGED searchVars
    /\ UNCHANGED extVars
    /\ UNCHANGED <<op, maxAttempts, requireComplete, first, rng>>
    /\ UNCHANGED genSolVars
    /\ UNCHANGED genPuzVars

InitHint ==
    /\ op = "findHint"
    /\ puzzle \in HintPuzzles
    /\ userEntries \in EntriesFor(puzzle)
    /\ official = [r \in 1 .. 9 |-> [c \in 1 .. 9 |-> puzzle[r][c] # 0]]
    /\ solution = validGrid
    /\ requireComplete = TRUE
    /\ pc = "call"
    /\ first = Null
    /\ grid = EmptyGrid
    /\ stack = <<>>
    /\ count = 0
    /\ ret = FALSE
    /\ result = NoHint
    /\ rng = 0
    /\ maxAttempts = 0
    /\ difficulty = "none"
    /\ attempt = 0
    /\ depth = 0
    /\ gsMax = 0
    /\ gsAttempt = 0
    /\ targetClues = 0
    /\ boxes = <<>>
    /\ boxIdx = 0
    /\ positions = <<>>
    /\ k = 1
    /\ removed = 0
    /\ backup = 0
    /\ InitRegionIdle
    /\ InitGameIdle

NextHint == FindHint_Call

SpecHint == InitHint /\ [][NextHint]_vars

(***************************************************************************)
(* The game's handlers that write userEntries and candidates, game.js, and *)
(* SudokuHistory.  Rendering, highlighting, conflicts, the timer and       *)
(* isComplete, which no handler reads, are left out.  op is the handler    *)
(* that ran last.                                                          *)
(***************************************************************************)
maxHistory == 100

\* cloneState: the copy holds the same values.
cloneState(state) ==
    [userEntries |-> CopyGrid(state.userEntries),
     candidates |-> [r \in 1 .. 9 |-> [c \in 1 .. 9 |-> state.candidates[r][c]]]]

\* A variant of saveState without the limit on the history size.
saveStateUnlimited(stk, state) == Append(stk, cloneState(state))

\* The undo stack after saveState(state).
saveState(stk, state) ==
    LET pushed == Append(stk, cloneState(state))
    IN  IF Len(pushed) > maxHistory THEN Tail(pushed) ELSE pushed

HistoryState == [userEntries |-> userEntries, candidates |-> candidates]

\* state.candidates after toggleCandidate(row, col, number).
toggleCandidate(cands, row, col, number) ==
    IF number \in Cell(cands, row, col)
    THEN SetCell(cands, row, col, Cell(cands, row, col) \ {number})
    ELSE SetCell(cands, row, col, Cell(cands, row, col) \cup {number})

MaxGameNumber == 2

\* The cells the player acts on: the puzzle's empty cells and one clue.
InputCells == {<<0, 0>>, <<8, 1>>, <<0, 1>>}

gameIdleVars == <<pc, rng, difficulty, maxAttempts, requireComplete, first, attempt,
                  depth, gsMax, gsAttempt, grid, stack, count, ret, solution, puzzle,
                  targetClues, boxes, boxIdx, positions, k, removed, backup, result,
                  regionVars, official, instantCheckEnabled, livesEnabled,
                  settingsVars>>

\* A variant of loseLife that never ends the game.
loseLifeNoGameOver(s) == [lives |-> s.lives - 1, isGameOver |-> s.isGameOver]

\* loseLife on the pair of state.lives and state.isGameOver.
loseLife(s) ==
    [lives |-> s.lives - 1, isGameOver |-> (s.isGameOver \/ s.lives - 1 <= 0)]

HandleNumberInput ==
    \E cell \in InputCells, number \in 0 .. MaxGameNumber :
        LET row == cell[1]
            col == cell[2]
            wrong == instantCheckEnabled /\ number # Cell(solution, row, col)
        IN  /\ pc = "play"
            /\ moves < moveLimit
            /\ ~isGameOver
            /\ ~Cell(official, row, col)
            /\ undoStack' = saveState(undoStack, HistoryState)
            /\ redoStack' = <<>>
            /\ IF candidateMode /\ number > 0
               THEN /\ candidates' = toggleCandidate(candidates, row, col, number)
                    /\ UNCHANGED <<userEntries, lives, isGameOver>>
               ELSE IF number = 0
               THEN /\ userEntries' = SetCell(userEntries, row, col, 0)
                    /\ UNCHANGED <<candidates, lives, isGameOver>>
               ELSE /\ userEntries' = SetCell(userEntries, row, col, number)
                    /\ candidates' = SetCell(candidates, row, col, {})
                    /\ IF wrong /\ livesEnabled
                       THEN LET after == loseLife([lives |-> lives,
                                                   isGameOver |-> isGameOver])
                            IN  /\ lives' = after.lives
                                /\ isGameOver' = after.isGameOver
                       ELSE UNCHANGED <<lives, isGameOver>>
            /\ op' = "handleNumberInput"
            /\ moves' = moves + 1
            /\ UNCHANGED candidateMode
            /\ UNCHANGED gameIdleVars

HandleDrag ==
    \E cell \in InputCells, number \in 1 .. MaxGameNumber :
        LET row == cell[1]
            col == cell[2]
        IN  /\ pc = "play"
            /\ moves < moveLimit
            /\ candidateMode
            /\ ~Cell(official, row, col)
            /\ Cell(userEntries, row, col) = 0
            /\ candidates' = toggleCandidate(candidates, row, col, number)
            /\ op' = "handleDrag"
            /\ moves' = moves + 1
            /\ UNCHANGED <<userEntries, lives, isGameOver, candidateMode,
                           undoStack, redoStack>>
            /\ UNCHANGED gameIdleVars

SolvePuzzle ==
    /\ pc = "play"
    /\ moves < moveLimit
    /\ userEntries' = [r \in 1 .. 9 |-> [c \in 1 .. 9 |->
                          IF ~official[r][c] THEN solution[r][c] ELSE userEntries[r][c]]]
    /\ candidates' = [r \in 1 .. 9 |-> [c \in 1 .. 9 |->
                         IF ~official[r][c] THEN {} ELSE candidates[r][c]]]
    /\ op' = "solvePuzzle"
    /\ moves' = moves + 1
    /\ UNCHANGED <<lives, isGameOver, candidateMode, undoStack, redoStack>>
    /\ UNCHANGED gameIdleVars

\* emptyCells[randomIndex] is any of the empty cells.
UseClue ==
    LET emptyCells == {n \in 0 .. 80 : /\ ~Cell(official, n \div 9, n % 9)
                                       /\ Cell(userEntries, n \div 9, n % 9) = 0}
    IN  /\ pc = "play"
        /\ moves < moveLimit
        /\ ~isGameOver
        /\ emptyCells # {}
        /\ \E n \in emptyCells :
               /\ userEntries' = SetCell(userEntries, n \div 9, n % 9,
                                         Cell(solution, n \div 9, n % 9))
               /\ candidates' = SetCell(candidates, n \div 9, n % 9, {})
        /\ undoStack' = saveState(undoStack, HistoryState)
        /\ redoStack' = <<>>
        /\ op' = "useClue"
        /\ moves' = moves + 1
        /\ UNCHANGED <<lives, isGameOver, candidateMode>>
        /\ UNCHANGED gameIdleVars

\* What SudokuHistory.undo returns: the top of the undo stack, or NoState
\* for null.
NoState == [userEntries |-> <<>>, candidates |-> <<>>]

historyUndo(stk) == IF Len(stk) = 0 THEN NoState ELSE Top(stk)

\* The entries, the candidates and the two stacks.
GameHistory ==
    [userEntries |-> userEntries, candidates |-> candidates,
     undoStack |-> undoStack, redoStack |-> redoStack]

\* A variant of gameRedo that does not save the current state.
gameRedoNoSave(s) ==
    IF Len(s.redoStack) = 0 THEN s
    ELSE [userEntries |-> Top(s.redoStack).userEntries,
          candidates |-> Top(s.redoStack).candidates,
          undoStack |-> s.undoStack,
          redoStack |-> Pop(s.redoStack)]

\* undo() of the game with SudokuHistory.undo: what becomes of s.
gameUndo(s) ==
    LET previousState == historyUndo(s.undoStack)
    IN  IF Len(s.undoStack) = 0 THEN s
        ELSE [userEntries |-> previousState.userEntries,
              candidates |-> previousState.candidates,
              undoStack |-> Pop(s.undoStack),
              redoStack |-> Append(s.redoStack, cloneState(s))]

\* redo() of the game with SudokuHistory.redo: what becomes of s.
gameRedo(s) ==
    IF Len(s.redoStack) = 0 THEN s
    ELSE [userEntries |-> Top(s.redoStack).userEntries,
          candidates |-> Top(s.redoStack).candidates,
          undoStack |-> Append(s.undoStack, cloneState(s)),
          redoStack |-> Pop(s.redoStack)]

Undo ==
    /\ pc = "play"
    /\ moves < moveLimit
    /\ LET after == gameUndo(GameHistory)
       IN  /\ userEntries' = after.userEntries
           /\ candidates' = after.candidates
           /\ undoStack' = after.undoStack
           /\ redoStack' = after.redoStack
    /\ op' = "undo"
    /\ moves' = moves + 1
    /\ UNCHANGED <<lives, isGameOver, candidateMode>>
    /\ UNCHANGED gameIdleVars

Redo ==
    /\ pc = "play"
    /\ moves < moveLimit
    /\ LET after == gameRedo(GameHistory)
       IN  /\ userEntries' = after.userEntries
           /\ candidates' = after.candidates
           /\ undoStack' = after.undoStack
           /\ redoStack' = after.redoStack
    /\ op' = "redo"
    /\ moves' = moves + 1
    /\ UNCHANGED <<lives, isGameOver, candidateMode>>
    /\ UNCHANGED gameIdleVars

\* SudokuInput.toggleCandidateMode
ToggleCandidateMode ==
    /\ pc = "play"
    /\ moves < moveLimit
    /\ candidateMode' = ~candidateMode
    /\ op' = "toggleCandidateMode"
    /\ moves' = moves + 1
    /\ UNCHANGED <<userEntries, candidates, lives, isGameOver, undoStack, redoStack>>
    /\ UNCHANGED gameIdleVars

\* The game after startNewGame on the test grid with two cells emptied.
InitGame ==
    /\ op = "startNewGame"
    /\ pc = "play"
    /\ solution = validGrid
    /\ puzzle = SetCell(SetCell(validGrid, 0, 0, 0), 8, 1, 0)
    /\ userEntries = EmptyGrid
    /\ candidates = EmptyCandidates
    /\ official = [r \in 1 .. 9 |-> [c \in 1 .. 9 |-> puzzle[r][c] # 0]]
    /\ lives = MAX_LIVES
    /\ isGameOver = FALSE
    /\ instantCheckEnabled \in BOOLEAN
    /\ livesEnabled \in BOOLEAN
    /\ candidateMode = FALSE
    /\ undoStack = <<>>
    /\ redoStack = <<>>
    /\ moves = 0
    /\ zenMode = FALSE
    /\ timerEnabled = TRUE
    /\ moveLimit = MaxMoves
    /\ requireComplete = TRUE
    /\ first = Null
    /\ grid = EmptyGrid
    /\ stack = <<>>
    /\ count = 0
    /\ ret = FALSE
    /\ result = Null
    /\ rng = 0
    /\ maxAttempts = 0
    /\ difficulty = "easy"
    /\ attempt = 0
    /\ depth = 0
    /\ gsMax = 0
    /\ gsAttempt = 0
    /\ targetClues = 0
    /\ boxes = <<>>
    /\ boxIdx = 0
    /\ positions = <<>>
    /\ k = 1
    /\ removed = 0
    /\ backup = 0
    /\ InitRegionIdle

NextGame ==
    \/ HandleNumberInput
    \/ HandleDrag
    \/ SolvePuzzle
    \/ UseClue
    \/ Undo
    \/ Redo
    \/ ToggleCandidateMode

SpecGame == InitGame /\ [][NextGame]_vars

(***************************************************************************)
(* A session: the game's handlers together with startNewGame and the       *)
(* settings handlers of setupEventListeners and setZenMode.                *)
(***************************************************************************)
DEFAULT_SETTINGS ==
    [timerEnabled |-> TRUE, livesEnabled |-> TRUE, instantCheckEnabled |-> TRUE,
     zenMode |-> FALSE]

MaxSessionMoves == 5

\* What a settings handler leaves alone besides the settings.
settingsIdleVars == <<pc, rng, difficulty, maxAttempts, requireComplete, first, attempt,
                      depth, gsMax, gsAttempt, grid, stack, count, ret, solution, puzzle,
                      targetClues, boxes, boxIdx, positions, k, removed, backup, result,
                      regionVars, snapshotVars, candidates, lives, isGameOver,
                      candidateMode, undoStack, redoStack, moveLimit>>

\* startNewGame(difficulty).  The new game is played on the same grid.
StartNewGame ==
    /\ pc = "play"
    /\ moves < moveLimit
    /\ userEntries' = EmptyGrid
    /\ candidates' = EmptyCandidates
    /\ official' = [r \in 1 .. 9 |-> [c \in 1 .. 9 |-> puzzle[r][c] # 0]]
    /\ lives' = MAX_LIVES
    /\ isGameOver' = FALSE
    /\ undoStack' = <<>>
    /\ redoStack' = <<>>
    /\ op' = "startNewGame"
    /\ moves' = moves + 1
    /\ UNCHANGED <<pc, rng, difficulty, maxAttempts, requireComplete, first, attempt,
                   depth, gsMax, gsAttempt, grid, stack, count, ret, solution, puzzle,
                   targetClues, boxes, boxIdx, positions, k, removed, backup, result,
                   regionVars, instantCheckEnabled, livesEnabled, candidateMode,
                   settingsVars>>

\* A variant of LivesToggle that leaves instantCheckEnabled alone.
LivesToggleAlone ==
    \E checked \in BOOLEAN :
        /\ pc = "play"
        /\ moves < moveLimit
        /\ ~zenMode
        /\ livesEnabled' = checked
        /\ op' = "lives-toggle"
        /\ moves' = moves + 1
        /\ UNCHANGED <<zenMode, timerEnabled, instantCheckEnabled>>
        /\ UNCHANGED settingsIdleVars

\* The change handler of lives-toggle.  updateSettingsUI disables the
\* toggle while zen mode is on.
LivesToggle ==
    \E checked \in BOOLEAN :
        /\ pc = "play"
        /\ moves < moveLimit
        /\ ~zenMode
        /\ livesEnabled' = checked
        /\ instantCheckEnabled' = checked
        /\ op' = "lives-toggle"
        /\ moves' = moves + 1
        /\ UNCHANGED <<zenMode, timerEnabled>>
        /\ UNCHANGED settingsIdleVars

\* The change handler of instant-check-toggle.
InstantCheckToggle ==
    \E checked \in BOOLEAN :
        /\ pc = "play"
        /\ moves < moveLimit
        /\ ~zenMode
        /\ instantCheckEnabled' = checked
        /\ livesEnabled' = checked
        /\ op' = "instant-check-toggle"
        /\ moves' = moves + 1
        /\ UNCHANGED <<zenMode, timerEnabled>>
        /\ UNCHANGED settingsIdleVars

\* The change handler of timer-toggle.
TimerToggle ==
    \E checked \in BOOLEAN :
        /\ pc = "play"
        /\ moves < moveLimit
        /\ ~zenMode
        /\ timerEnabled' = checked
        /\ op' = "timer-toggle"
        /\ moves' = moves + 1
        /\ UNCHANGED <<zenMode, instantCheckEnabled, livesEnabled>>
        /\ UNCHANGED settingsIdleVars

\* setZenMode(enabled)
SetZenMode ==
    \E enabled \in BOOLEAN :
        /\ pc = "play"
        /\ moves < moveLimit
        /\ zenMode' = enabled
        /\ IF enabled
           THEN /\ timerEnabled' = FALSE
                /\ livesEnabled' = FALSE
                /\ instantCheckEnabled' = FALSE
           ELSE /\ timerEnabled' = DEFAULT_SETTINGS.timerEnabled
                /\ livesEnabled' = DEFAULT_SETTINGS.livesEnabled
                /\ instantCheckEnabled' = DEFAULT_SETTINGS.instantCheckEnabled
        /\ op' = "setZenMode"
        /\ moves' = moves + 1
        /\ UNCHANGED settingsIdleVars

\* The game after init() with no saved settings and startNewGame on the
\* test grid with two cells emptied.
InitSession ==
    /\ op = "startNewGame"
    /\ pc = "play"
    /\ solution = validGrid
    /\ puzzle = SetCell(SetCell(validGrid, 0, 0, 0), 8, 1, 0)
    /\ userEntries = EmptyGrid
    /\ candidates = EmptyCandidates
    /\ official = [r \in 1 .. 9 |-> [c \in 1 .. 9 |-> puzzle[r][c] # 0]]
    /\ lives = MAX_LIVES
    /\ isGameOver = FALSE
    /\ instantCheckEnabled = DEFAULT_SETTINGS.instantCheckEnabled
    /\ livesEnabled = DEFAULT_SETTINGS.livesEnabled
    /\ zenMode = DEFAULT_SETTINGS.zenMode
    /\ timerEnabled = DEFAULT_SETTINGS.timerEnabled
    /\ candidateMode = FALSE
    /\ undoStack = <<>>
    /\ redoStack = <<>>
    /\ moves = 0
    /\ moveLimit = MaxSessionMoves
    /\ requireComplete = TRUE
    /\ first = Null
    /\ grid = EmptyGrid
    /\ stack = <<>>
    /\ count = 0
    /\ ret = FALSE
    /\ result = Null
    /\ rng = 0
    /\ maxAttempts = 0
    /\ difficulty = "easy"
    /\ attempt = 0
    /\ depth = 0
    /\ gsMax = 0
    /\ gsAttempt = 0
    /\ targetClues = 0
    /\ boxes = <<>>
    /\ boxIdx = 0
    /\ positions = <<>>
    /\ k = 1
    /\ removed = 0
    /\ backup = 0
    /\ InitRegionIdle

NextSession ==
    \/ HandleNumberInput
    \/ HandleDrag
    \/ SolvePuzzle
    \/ UseClue
    \/ Undo
    \/ Redo
    \/ ToggleCandidateMode
    \/ StartNewGame
    \/ LivesToggle
    \/ InstantCheckToggle
    \/ TimerToggle
    \/ SetZenMode

SpecSession == InitSession /\ [][NextSession]_vars

(***************************************************************************)
(* SudokuHistory on its own: any sequence of saveState, undo, redo and     *)
(* clear after init.  The state saved first into an empty undo stack is    *)
(* FirstState, every other argument is LaterState, so that the oldest      *)
(* entry can be told from the others.                                      *)
(***************************************************************************)
FirstState ==
    [userEntries |-> SetCell(EmptyGrid, 0, 0, 1), candidates |-> EmptyCandidates]

LaterState == [userEntries |-> EmptyGrid, candidates |-> EmptyCandidates]

historyIdleVars == <<pc, rng, difficulty, maxAttempts, requireComplete, first, attempt,
                     depth, gsMax, gsAttempt, grid, stack, count, ret, solution, puzzle,
                     targetClues, boxes, boxIdx, positions, k, removed, backup, result,
                     regionVars, snapshotVars, candidates, lives, isGameOver,
                     instantCheckEnabled, livesEnabled, candidateMode, moves,
                     settingsVars>>

History_SaveState ==
    /\ pc = "history"
    /\ undoStack' = saveState(undoStack,
                              IF Len(undoStack) = 0 THEN FirstState ELSE LaterState)
    /\ redoStack' = <<>>
    /\ op' = "saveState"
    /\ UNCHANGED historyIdleVars

History_Undo ==
    /\ pc = "history"
    /\ IF Len(undoStack) = 0
       THEN UNCHANGED <<undoStack, redoStack>>
       ELSE /\ redoStack' = Append(redoStack, cloneState(LaterState))
            /\ undoStack' = Pop(undoStack)
    /\ op' = "undo"
    /\ UNCHANGED historyIdleVars

History_Redo ==
    /\ pc = "history"
    /\ IF Len(redoStack) = 0
       THEN UNCHANGED <<undoStack, redoStack>>
       ELSE /\ undoStack' = Append(undoStack, cloneState(LaterState))
            /\ redoStack' = Pop(redoStack)
    /\ op' = "redo"
    /\ UNCHANGED historyIdleVars

History_Clear ==
    /\ pc = "history"
    /\ undoStack' = <<>>
    /\ redoStack' = <<>>
    /\ op' = "clear"
    /\ UNCHANGED historyIdleVars

\* SudokuHistory after init.
InitHistory ==
    /\ op = "init"
    /\ pc = "history"
    /\ puzzle = EmptyGrid
    /\ requireComplete = TRUE
    /\ first = Null
    /\ grid = EmptyGrid
    /\ stack = <<>>
    /\ count = 0
    /\ ret = FALSE
    /\ result = Null
    /\ InitIdle
    /\ InitExtIdle

NextHistory ==
    \/ History_SaveState
    \/ History_Undo
    \/ History_Redo
    \/ History_Clear

SpecHistory == InitHistory /\ [][NextHistory]_vars

(***************************************************************************)
(* What the claims speak of, stated without the program's code.            *)
(***************************************************************************)
\* Every row, every column and every 3x3 box of g is a permutation of 1..9.
IsSolution(g) ==
    /\ \A r \in Idx : {Cell(g, r, c) : c \in Idx} = 1 .. 9
    /\ \A c \in Idx : {Cell(g, r, c) : r \in Idx} = 1 .. 9
    /\ \A br \in {0, 3, 6} : \A bc \in {0, 3, 6} :
           {Cell(g, br + i, bc + j) : i \in 0 .. 2, j \in 0 .. 2} = 1 .. 9

\* g agrees with p on every non-zero cell of p.
Extends(g, p) ==
    \A r \in Idx : \A c \in Idx : Cell(p, r, c) # 0 => Cell(g, r, c) = Cell(p, r, c)

ClueCount(p) == Cardinality({n \in 0 .. 80 : Cell(p, n \div 9, n % 9) # 0})

EmptyCells(p) == {n \in 0 .. 80 : Cell(p, n \div 9, n % 9) = 0}

\* The values a completion can put in cell n: those not among the cell's
\* row, column and box in p.
Candidates(p, n) ==
    LET r == n \div 9
        c == n % 9
    IN  (1 .. 9) \ ({Cell(p, r, j) : j \in Idx} \cup {Cell(p, i, c) : i \in Idx}
                    \cup {Cell(p, (r \div 3) * 3 + i, (c \div 3) * 3 + j) :
                              i \in 0 .. 2, j \in 0 .. 2})

\* The completions of p: the solutions that extend p.
RECURSIVE Completions(_)
Completions(p) ==
    IF EmptyCells(p) = {}
    THEN IF IsSolution(p) THEN {p} ELSE {}
    ELSE LET n == CHOOSE m \in EmptyCells(p) : \A o \in EmptyCells(p) : o <= m
         IN  UNION {Completions(SetCell(p, n \div 9, n % 9, v)) : v \in Candidates(p, n)}

InGeneratePuzzleBody ==
    /\ op = "generatePuzzle"
    /\ pc \in {"gp_remove", "gp_checked", "count_enter", "count_loop", "count_ret",
               "gp_validate", "done"}

(***************************************************************************)
(* C1.  Every grid generateSolution returns, and every grid fillGrid hands *)
(* to generateSolution's validation, is complete, has a permutation of     *)
(* 1..9 in every row, column and box, and passes isValidGrid(grid, true).  *)
(***************************************************************************)
C1_GeneratedSolutionIsValid ==
    /\ (op = "generateSolution" /\ pc = "gs_validate")
           => IsSolution(grid) /\ isValidGrid(grid, TRUE)
    /\ (op = "generateSolution" /\ pc = "done")
           => IsSolution(result) /\ isValidGrid(result, TRUE)

\* generateSolution(0), which runs only the final attempt, has returned.
C1_Witness == op = "generateSolution" /\ pc = "done" /\ maxAttempts = 0

(***************************************************************************)
(* C2.  In generatePuzzle, from the copy on and in the result, solution is *)
(* a complete valid grid and every non-zero cell of puzzle equals the cell *)
(* of solution; no step of the removal loop changes solution, and the      *)
(* result holds this puzzle and this solution.                             *)
(***************************************************************************)
C2_StateInvariant ==
    /\ InGeneratePuzzleBody
           => IsSolution(solution) /\ Extends(solution, puzzle)
    /\ (op = "generatePuzzle" /\ pc = "done")
           => result = [puzzle |-> puzzle, solution |-> solution]

C2_PuzzleAgreesWithSolution ==
    /\ []C2_StateInvariant
    /\ [][InGeneratePuzzleBody => solution' = solution]_vars

\* A run that checks uniqueness has restored a rejected cell.
C2_Witness ==
    /\ op = "generatePuzzle" /\ pc = "gp_remove"
    /\ checksUniqueness(difficulty)
    /\ removed < k - 1

testClueRange(d) ==
    CASE d = "easy"    -> [min |-> 45, max |-> 50]
      [] d = "medium"  -> [min |-> 36, max |-> 45]
      [] d = "hard"    -> [min |-> 28, max |-> 36]
      [] d = "extreme" -> [min |-> 17, max |-> 28]

C5_ClueCountInTestRange ==
    (op = "generatePuzzle" /\ pc = "done"
        /\ difficulty \in {"easy", "medium", "hard", "extreme"})
    => /\ ClueCount(result.puzzle) >= testClueRange(difficulty).min
       /\ ClueCount(result.puzzle) <= testClueRange(difficulty).max

(***************************************************************************)
(* Grids with a repeated value, and the shape of a 9x9 grid.               *)
(***************************************************************************)
\* Cells n and m of 0 .. 80 lie in one row, one column or one box.
SameUnit(n, m) ==
    \/ n \div 9 = m \div 9
    \/ n % 9 = m % 9
    \/ (n \div 27 = m \div 27 /\ (n % 9) \div 3 = (m % 9) \div 3)

\* Some non-zero value occurs twice in a row, a column or a box of p.
HasRepeatedValue(p) ==
    \E n \in 0 .. 80 : \E m \in 0 .. 80 :
        /\ n # m
        /\ SameUnit(n, m)
        /\ Cell(p, n \div 9, n % 9) # 0
        /\ Cell(p, n \div 9, n % 9) = Cell(p, m \div 9, m % 9)

CellsInRange(p) == \A r \in Idx : \A c \in Idx : Cell(p, r, c) \in 0 .. 9

\* g is an array of 9 rows, each an array of 9 entries.
WellShaped(g) ==
    /\ ~IsNull(g)
    /\ Len(g) = 9
    /\ \A r \in 1 .. 9 : ~IsNull(g[r]) /\ Len(g[r]) = 9

Min(a, b) == IF a <= b THEN a ELSE b

(***************************************************************************)
(* C6.  For every puzzle with isValidGrid(puzzle, false), solve(puzzle)    *)
(* returns null exactly when the puzzle has no completion; otherwise it    *)
(* returns a complete grid that passes isValidGrid(result, true) and       *)
(* agrees with puzzle on every non-zero cell of puzzle.  (A returned grid  *)
(* of this kind is itself a completion, so the two cases exclude each      *)
(* other.)                                                                 *)
(***************************************************************************)
C6_SolveReturnsCompletionOrNull ==
    (op = "solve" /\ pc = "done" /\ isValidGrid(puzzle, FALSE))
    => IF IsNull(result)
       THEN Completions(puzzle) = {}
       ELSE /\ IsSolution(result)
            /\ isValidGrid(result, TRUE)
            /\ Extends(result, puzzle)

\* solve has returned null for a puzzle that passes isValidGrid(puzzle, false).
C6_Witness ==
    /\ op = "solve" /\ pc = "done"
    /\ isValidGrid(puzzle, FALSE)
    /\ ClueCount(puzzle) < 81
    /\ IsNull(result)

(***************************************************************************)
(* C7.  For every grid of values 0..9 in which a non-zero value occurs     *)
(* twice in a row, a column or a box, solve(puzzle) returns null.          *)
(***************************************************************************)
C7_SolveRejectsRepeatedValues ==
    (op = "solve" /\ pc = "done" /\ CellsInRange(puzzle) /\ HasRepeatedValue(puzzle))
    => IsNull(result)

(***************************************************************************)
(* C8.  solve returns a complete valid input unchanged, and, whenever the  *)
(* inner call of solve(solve(p)) returns a grid, the outer call returns    *)
(* the same grid.                                                          *)
(***************************************************************************)
C8_SolveIsIdempotent ==
    /\ (op = "solve" /\ pc = "done" /\ IsSolution(puzzle)) => result = puzzle
    /\ (op = "solveTwice" /\ pc = "done" /\ ~IsNull(first)) => result = first

\* solve(solve(p)) has returned for a valid puzzle p with empty cells and
\* several completions.
C8_Witness ==
    /\ op = "solveTwice" /\ pc = "done" /\ ~IsNull(first)
    /\ isValidGrid(puzzle, FALSE)
    /\ ClueCount(puzzle) < 81
    /\ first # validGrid

(***************************************************************************)
(* C9.  For every grid with isValidGrid(grid, false), countSolutions       *)
(* returns min(k, 2) for the number k of completions of the grid, one of   *)
(* 0, 1, 2; on the all-zero grid it returns 2; hasUniqueSolution returns   *)
(* true exactly when k = 1; and both calls return.  (The completions of    *)
(* the all-zero grid are not enumerated: 2 there is the claim's value.)    *)
(***************************************************************************)
C9_StateInvariant ==
    /\ (op = "countSolutions" /\ pc = "done" /\ isValidGrid(puzzle, FALSE))
           => /\ result \in {0, 1, 2}
              /\ IF puzzle = EmptyGrid
                 THEN result = 2
                 ELSE result = Min(Cardinality(Completions(puzzle)), 2)
    /\ (op = "hasUniqueSolution" /\ pc = "done" /\ isValidGrid(puzzle, FALSE))
           => IF puzzle = EmptyGrid
              THEN result = FALSE
              ELSE result = (Cardinality(Completions(puzzle)) = 1)

C9_CountSolutionsIsMinOfTwo ==
    /\ []C9_StateInvariant
    /\ (pc = "call" /\ op \in {"countSolutions", "hasUniqueSolution"}) ~> (pc = "done")

\* countSolutions has stopped at 2 on a grid that has more than two completions.
C9_Witness ==
    /\ op = "countSolutions" /\ pc = "done"
    /\ isValidGrid(puzzle, FALSE)
    /\ puzzle # EmptyGrid
    /\ Cardinality(Completions(puzzle)) > 2
    /\ result = 2

CalledRegion ==
    CASE op = "validateRow" -> {n \in 0 .. 80 : n \div 9 = argRow}
      [] op = "validateColumn" -> {n \in 0 .. 80 : n % 9 = argCol}
      [] op = "validateSubgrid" ->
             {n \in 0 .. 80 : /\ (n \div 9) \in argRow .. argRow + 2
                              /\ (n % 9) \in argCol .. argCol + 2}

\* What the claim says of the cells S of p, read from those cells alone.
RegionIsValid(p, S) ==
    /\ \A n \in S : Cell(p, n \div 9, n % 9) \in 0 .. 9
    /\ \A n \in S : \A m \in S :
           (n # m /\ Cell(p, n \div 9, n % 9) # 0)
               => Cell(p, n \div 9, n % 9) # Cell(p, m \div 9, m % 9)

CurrentGrid ==
    [r \in 1 .. 9 |-> [c \in 1 .. 9 |->
        IF puzzle[r][c] # 0 THEN puzzle[r][c] ELSE userEntries[r][c]]]

HintCalled == op = "findHint" /\ pc = "done"

\* The empty cells whose only candidate is the solution's value.
NakedMatches ==
    {n \in EmptyCells(CurrentGrid) :
        Candidates(CurrentGrid, n) = {Cell(solution, n \div 9, n % 9)}}

\* The empty cells that are the only place of their unit U for the
\* solution's value.
HiddenMatches(U(_)) ==
    {n \in EmptyCells(CurrentGrid) :
        LET num == Cell(solution, n \div 9, n % 9)
        IN  /\ num \in Candidates(CurrentGrid, n)
            /\ \A m \in EmptyCells(CurrentGrid) :
                   (m # n /\ U(m) = U(n)) => num \notin Candidates(CurrentGrid, m)}

RowOf(n) == n \div 9

ColumnOf(n) == n % 9

BoxOf(n) == ((n \div 9) \div 3) * 3 + ((n % 9) \div 3)

ExpectedTechnique ==
    IF EmptyCells(CurrentGrid) = {} THEN "null"
    ELSE IF NakedMatches # {} THEN "Naked Single"
    ELSE IF HiddenMatches(RowOf) # {} THEN "Hidden Single (Row)"
    ELSE IF HiddenMatches(ColumnOf) # {} THEN "Hidden Single (Column)"
    ELSE IF HiddenMatches(BoxOf) # {} THEN "Hidden Single (Box)"
    ELSE "Process of Elimination"

\* C12: findHint returns the hint of the first technique, in the order
\* Naked Single, Hidden Single (Row), (Column), (Box), that has a match, and
\* the fallback 'Process of Elimination' when none has; a Naked Single hint
\* names the first qualifying cell in row-major order; with a single empty
\* cell the hint is 'Naked Single' at that cell with the missing value.
C12_TechniqueOrder ==
    HintCalled =>
        /\ result.technique = ExpectedTechnique
        /\ result.technique = "Naked Single" =>
               /\ result.row * 9 + result.col = Least(NakedMatches)
               /\ result.number = Cell(solution, result.row, result.col)
        /\ \A n \in 0 .. 80 :
               (EmptyCells(CurrentGrid) = {n} /\ CurrentGrid = SetCell(solution, n \div 9, n % 9, 0)) =>
                   result = [row |-> n \div 9, col |-> n % 9,
                             number |-> Cell(solution, n \div 9, n % 9),
                             technique |-> "Naked Single"]

C12_Witness ==
    /\ HintCalled
    /\ result.technique = "Hidden Single (Box)"
    /\ Cardinality(EmptyCells(CurrentGrid)) > 1

C12_WitnessNaked ==
    /\ HintCalled
    /\ result.technique = "Naked Single"
    /\ Cardinality(NakedMatches) > 1

OfficialOnlyAtClues ==
    \A n \in 0 .. 80 :
        Cell(official, n \div 9, n % 9) => Cell(puzzle, n \div 9, n % 9) # 0

HasWrongEntry ==
    \E n \in 0 .. 80 :
        /\ Cell(userEntries, n \div 9, n % 9) # 0
        /\ Cell(userEntries, n \div 9, n % 9) # Cell(solution, n \div 9, n % 9)

\* C13: when official is true only at the puzzle's clues, every hint that
\* findHint returns names a cell that is not official and has no entry, and
\* the number the solution has at that cell, whatever the technique and
\* even when entries disagree with the solution.
C13_HintIsSound ==
    (HintCalled /\ OfficialOnlyAtClues /\ ~IsNoHint(result)) =>
        /\ result.row \in Idx
        /\ result.col \in Idx
        /\ ~Cell(official, result.row, result.col)
        /\ Cell(userEntries, result.row, result.col) = 0
        /\ Cell(CurrentGrid, result.row, result.col) = 0
        /\ result.number = Cell(solution, result.row, result.col)

C13_Witness ==
    /\ HintCalled
    /\ OfficialOnlyAtClues
    /\ HasWrongEntry
    /\ result.technique = "Hidden Single (Column)"
    /\ \E n \in EmptyCells(CurrentGrid) :
           /\ Cardinality(Candidates(CurrentGrid, n)) = 1
           /\ Candidates(CurrentGrid, n) # {Cell(solution, n \div 9, n % 9)}

\* C14: findHint returns null only when the puzzle is solved: a null result
\* implies that the current grid has no empty cell and equals the solution,
\* and every other snapshot gets a hint.
C14_NullOnlyWhenSolved ==
    HintCalled => (IsNoHint(result) <=> CurrentGrid = solution)

(***************************************************************************)
(* The generator's and the solver's runs, second part.                     *)
(***************************************************************************)
\* C15: generatePuzzle(difficulty, maxAttempts) returns a result of puzzle
\* and solution for every difficulty and every maxAttempts >= 0, 0
\* included: no run of it ends in an exception, and none calls itself
\* until the call stack is used up.
C15_GeneratePuzzleReturns ==
    op = "generatePuzzle" => pc # "thrown"

(***************************************************************************)
(* The game's claims.                                                      *)
(***************************************************************************)
PlayerActions == {"handleNumberInput", "handleDrag", "useClue", "solvePuzzle"}

\* C16: undo covers all moves: right after a player action that changes
\* userEntries or candidates (number entry, erase, candidate toggle by pad,
\* keyboard or drag, clue, solve), one undo gives back the userEntries and
\* the candidates the game had before the action.
C16_UndoCoversAllMoves ==
    [][(op' \in PlayerActions /\ <<userEntries', candidates'>> # <<userEntries, candidates>>) =>
           historyUndo(undoStack') = HistoryState]_vars

InFillGrid == pc \in {"fill_enter", "fill_loop", "fill_ret"}

\* C17: fillGrid on the all-zero grid ends and returns true whatever the
\* shuffles give, and generateSolution's validation of the filled grid
\* never fails: the grid of the first fill is what generateSolution hands
\* back, no step leads from the validation to another fill, and the
\* attempt counter stays 0.
C17_FirstFillSucceeds ==
    /\ [](pc = "gs_validate" => (ret /\ stack = <<>> /\ isValidGrid(grid, TRUE)))
    /\ [](gsAttempt = 0)
    /\ [][pc = "gs_validate" => (pc' \in {"done", "gp_setup"}
                                    /\ (pc' = "done" => result' = grid)
                                    /\ (pc' = "gp_setup" => solution' = grid))]_vars
    /\ (pc = "gs_begin" ~> pc = "gs_validate")

\* generateSolution(1) has returned the grid of a fill in which some nested
\* fillGrid call had returned false.
C17_Witness ==
    /\ op = "generateSolution"
    /\ maxAttempts = 1
    /\ pc = "done"
    /\ result = grid
    /\ \E n \in 0 .. 80 : Cell(grid, n \div 9, n % 9) # Cell(validGrid, n \div 9, n % 9)

C17_Backtracks == InFillGrid /\ pc = "fill_ret" /\ ~ret /\ stack # <<>>

InSearch ==
    pc \in {"fill_enter", "fill_loop", "fill_ret", "solve_enter", "solve_loop",
            "solve_ret", "count_enter", "count_loop", "count_ret"}

\* The grid the running search was started on.
SearchStart ==
    IF op = "generateSolution" THEN EmptyGrid
    ELSE IF op = "solveTwice" /\ ~IsNull(first) THEN first
    ELSE puzzle

NonZeroCells(p) == {n \in 0 .. 80 : Cell(p, n \div 9, n % 9) # 0}

\* The cells that share a row, a column or a box with cell n.
Peers == [n \in 0 .. 80 |-> {m \in 0 .. 80 : m # n /\ SameUnit(n, m)}]

\* No non-zero value of p occurs twice in a row, a column or a box.
NoRepeatedValue(p) ==
    \A n \in 0 .. 80 :
        \/ Cell(p, n \div 9, n % 9) = 0
        \/ \A m \in Peers[n] : Cell(p, m \div 9, m % 9) # Cell(p, n \div 9, n % 9)

\* C18: while fillGrid, solveGrid or countSolutions runs on a grid that had
\* no repeated value at the start, the grid never has a repeated non-zero
\* value in a row, a column or a box, and every cell that was non-zero at
\* the start keeps its value; from the all-zero grid, the non-zero cells
\* are always the first cells of the row-major order.
C18_SearchKeepsGridConsistent ==
    (InSearch /\ NoRepeatedValue(SearchStart)) =>
        /\ NoRepeatedValue(grid)
        /\ \A n \in NonZeroCells(SearchStart) :
               Cell(grid, n \div 9, n % 9) = Cell(SearchStart, n \div 9, n % 9)
        /\ SearchStart = EmptyGrid =>
               \E n \in 0 .. 81 : NonZeroCells(grid) = 0 .. n - 1

\* solveGrid has backtracked on a puzzle with clues: a call has returned
\* false to a caller deeper than the first empty cell.
C18_Witness ==
    /\ op = "solve"
    /\ pc = "solve_ret"
    /\ ~ret
    /\ Len(stack) > 1
    /\ ~HasRepeatedValue(puzzle)
    /\ ClueCount(puzzle) > 0

\* fillGrid is under way from the all-zero grid with half the cells filled.
C18_WitnessFill ==
    /\ op = "generateSolution"
    /\ pc = "fill_loop"
    /\ Cardinality(NonZeroCells(grid)) = 40

\* The grid a search was called on: the puzzle, or, in the outer call of
\* solve(solve(puzzle)), the grid the inner call returned.
SearchBase == IF op = "solveTwice" /\ ~IsNull(first) THEN first ELSE puzzle

\* The grid as it was when the call that is returning was made: the search's
\* base with the placements of the calls that still wait on the stack.
GridAtCall ==
    [r \in 1 .. 9 |-> [c \in 1 .. 9 |->
        LET F == {i \in 1 .. Len(stack) : stack[i].row = r - 1 /\ stack[i].col = c - 1}
        IN  IF F = {} THEN SearchBase[r][c] ELSE stack[CHOOSE i \in F : TRUE].num]]

\* What the caller's array holds now.
CallerPuzzle == IF searchesArgument THEN grid ELSE puzzle

\* C19: when a countSolutions call returns, after exhausting its loop or
\* after the early exit at two solutions, grid is cell for cell what it was
\* at the call; so is grid when a solveGrid call returns false; and the
\* array the caller passed to solve or hasUniqueSolution is never changed.
C19_SearchRestoresGrid ==
    /\ (op \in {"countSolutions", "hasUniqueSolution"} /\ pc = "count_ret")
           => grid = GridAtCall
    /\ (op \in {"solve", "solveTwice"} /\ pc = "solve_ret" /\ ~ret)
           => grid = GridAtCall
    /\ (op = "countSolutions" /\ pc = "done") => CallerPuzzle = puzzle
    /\ op \in {"solve", "solveTwice", "hasUniqueSolution"} => CallerPuzzle = puzzle

\* countSolutions has returned 2 by the early exit from a search of several
\* nested calls, and has returned to a caller that waits on the stack.
C19_Witness ==
    /\ op = "countSolutions"
    /\ pc = "count_ret"
    /\ count = 2
    /\ Len(stack) > 1
    /\ grid # puzzle

C19_WitnessSolveFalse ==
    /\ op = "solve"
    /\ pc = "solve_ret"
    /\ ~ret
    /\ stack = <<>>
    /\ ClueCount(puzzle) < 81

\* C20: the positions of each box are shuffled before the removal queue is
\* built: the callback of boxes.forEach leaves in the box the order that
\* shuffleArray drew for it, so that any of the box's nine positions can be
\* the box's first entry in the queue.
C20_BoxesAreShuffled ==
    [][(pc = "gp_shuffle" /\ boxIdx < Len(boxes)) =>
           boxes'[boxIdx + 1] = shuffleArray(boxes[boxIdx + 1], rng).array]_vars

(***************************************************************************)
(* The removal queue and the difficulty table.                             *)
(***************************************************************************)
BoxOfPosition(p) == (p[1] \div 3) * 3 + (p[2] \div 3)

\* The number of clues of puzzle p in box b.
BoxClues(p, b) == Cardinality({n \in NonZeroCells(p) : BoxOf(n) = b})

\* C21: the removal queue holds each of the 81 positions exactly once, and
\* each round of nine consecutive entries holds one position of every box,
\* in the same box order in every round; so in the puzzle returned for
\* 'easy' and 'medium' the clue counts of any two boxes differ by at most
\* one and every box keeps a clue.
C21_BalancedRemovalQueue ==
    /\ InGeneratePuzzleBody =>
           /\ Len(positions) = 81
           /\ {positions[n] : n \in 1 .. 81} = Idx \X Idx
           /\ {BoxOfPosition(positions[n]) : n \in 1 .. 9} = 0 .. 8
           /\ \A n \in 10 .. 81 :
                  BoxOfPosition(positions[n]) = BoxOfPosition(positions[n - 9])
    /\ (op = "generatePuzzle" /\ pc = "done" /\ difficulty \in {"easy", "medium"}) =>
           /\ \A a \in 0 .. 8 : \A b \in 0 .. 8 :
                  BoxClues(result.puzzle, a) - BoxClues(result.puzzle, b) <= 1
           /\ \A b \in 0 .. 8 : BoxClues(result.puzzle, b) >= 1

\* A medium puzzle has been returned whose boxes do not all hold the same
\* number of clues, from a queue that does not start with box 0.
C21_Witness ==
    /\ op = "generatePuzzle"
    /\ pc = "done"
    /\ difficulty = "medium"
    /\ BoxOfPosition(positions[1]) # 0
    /\ \E a \in 0 .. 8 : \E b \in 0 .. 8 :
           BoxClues(result.puzzle, a) # BoxClues(result.puzzle, b)

\* C22: for a difficulty that is none of 'easy', 'medium', 'hard' and
\* 'superhard', generatePuzzle takes easy's clue range and removes cells
\* without a uniqueness check: targetClues is in 45..50 and the returned
\* puzzle has exactly targetClues non-zero cells.
C22_UnknownDifficultyIsEasy ==
    (op = "generatePuzzle" /\ difficulty \notin {"easy", "medium", "hard", "superhard"}) =>
        /\ pc \notin {"count_enter", "count_loop", "count_ret", "gp_checked"}
        /\ pc \in {"gp_remove", "gp_validate", "done"} => targetClues \in 45 .. 50
        /\ pc = "done" => ClueCount(result.puzzle) = targetClues

(***************************************************************************)
(* The hint engine's claims, second part.                                  *)
(***************************************************************************)
\* The cells of the region that a hint's technique names, around cell n.
HintRegion(technique, n) ==
    CASE technique = "Hidden Single (Row)" -> {m \in 0 .. 80 : RowOf(m) = RowOf(n)}
      [] technique = "Hidden Single (Column)" -> {m \in 0 .. 80 : ColumnOf(m) = ColumnOf(n)}
      [] technique = "Hidden Single (Box)" -> {m \in 0 .. 80 : BoxOf(m) = BoxOf(n)}

\* The candidate set of cell n: empty for a filled cell.
CandidateSet(n) ==
    IF n \in EmptyCells(CurrentGrid) THEN Candidates(CurrentGrid, n) ELSE {}

IsHiddenSingle(h) ==
    h.technique \in {"Hidden Single (Row)", "Hidden Single (Column)", "Hidden Single (Box)"}

\* C23: a hint of a Hidden Single technique names a number that is not yet
\* in its row (column, box) of the current grid and a cell that is the only
\* one of that region with the number among its candidates, and the cell
\* has at least two candidates: a Naked Single is never reported as a
\* Hidden Single.
C23_HiddenSingleIsHidden ==
    (HintCalled /\ IsHiddenSingle(result)) =>
        LET c == result.row * 9 + result.col
            region == HintRegion(result.technique, c)
        IN  /\ \A m \in region : Cell(CurrentGrid, m \div 9, m % 9) # result.number
            /\ {m \in region : result.number \in CandidateSet(m)} = {c}
            /\ Cardinality(CandidateSet(c)) >= 2

\* A Hidden Single (Row) hint has been returned for a region with several
\* empty cells.
C23_Witness ==
    /\ HintCalled
    /\ result.technique = "Hidden Single (Row)"
    /\ Cardinality(HintRegion(result.technique, result.row * 9 + result.col)
                       \cap EmptyCells(CurrentGrid)) >= 2

(***************************************************************************)
(* The order in which solve finds a completion.                            *)
(***************************************************************************)
\* Grid a comes before grid b in row-major lexicographic order.
LexLess(a, b) ==
    \E n \in 0 .. 80 :
        /\ Cell(a, n \div 9, n % 9) < Cell(b, n \div 9, n % 9)
        /\ \A m \in 0 .. n - 1 : Cell(a, m \div 9, m % 9) = Cell(b, m \div 9, m % 9)

LexMin(S) == CHOOSE g \in S : \A h \in S : h = g \/ LexLess(g, h)

\* C24: for a valid partial grid with at least one completion, solve
\* returns the completion that is smallest in row-major lexicographic
\* order; the result is a function of the grid alone, so two calls on
\* equal grids return equal grids.
\* (The completions of the empty grid are all the Sudoku solutions and are
\* not enumerated.)
C24_SolveReturnsLeastCompletion ==
    /\ (op = "solve" /\ pc = "done" /\ isValidGrid(puzzle, FALSE)
            /\ puzzle # EmptyGrid /\ Completions(puzzle) # {})
       => /\ ~IsNull(result)
          /\ result = LexMin(Completions(puzzle))
    /\ (op = "solveTwice" /\ pc = "done" /\ ~IsNull(first)
            /\ isValidGrid(puzzle, FALSE) /\ puzzle # EmptyGrid)
       => first = LexMin(Completions(puzzle))

\* solve has returned for a valid partial grid with several completions.
C24_Witness ==
    /\ op = "solve" /\ pc = "done"
    /\ isValidGrid(puzzle, FALSE)
    /\ Cardinality(Completions(puzzle)) >= 2
    /\ ~IsNull(result)

(***************************************************************************)
(* The settings.                                                           *)
(***************************************************************************)
\* C25: in every state reachable from the default settings, livesEnabled
\* and instantCheckEnabled are equal: each of the two toggles sets both to
\* the toggle's value, zen mode on sets both false and zen mode off sets
\* both true.
C25_LivesFollowInstantCheck ==
    /\ livesEnabled = instantCheckEnabled
    /\ op \in {"lives-toggle", "instant-check-toggle"} => ~zenMode
    /\ op = "setZenMode" => (livesEnabled = ~zenMode /\ instantCheckEnabled = ~zenMode)

\* Lives and instant check have been switched off by their toggle and a
\* handler of the game has run since.
C25_Witness ==
    /\ ~livesEnabled /\ ~instantCheckEnabled /\ ~zenMode
    /\ op \in PlayerActions
    /\ moves >= 2

(***************************************************************************)
(* The candidates and the solution.                                        *)
(***************************************************************************)
\* Every non-empty cell of the current grid holds the solution's value.
AgreesWithSolution ==
    \A n \in 0 .. 80 :
        Cell(CurrentGrid, n \div 9, n % 9) \in {0, Cell(solution, n \div 9, n % 9)}

\* C26: when the solution is a complete valid grid and every non-empty
\* cell of the current grid equals it, the candidate set calculateCandidates
\* gives an empty cell holds the solution's value; so the check of
\* findNakedSingle against the solution rejects no cell, and the number of
\* every hint findHint returns, the fallback's included, is a candidate of
\* the hint's cell.
C26_SolutionIsCandidate ==
    (IsSolution(solution) /\ AgreesWithSolution) =>
        LET g == buildCurrentGrid(Snapshot)
            cands == calculateCandidates(g)
        IN  /\ \A n \in 0 .. 80 :
                   Cell(g, n \div 9, n % 9) = 0
                       => Cell(solution, n \div 9, n % 9) \in Cell(cands, n \div 9, n % 9)
            /\ \A n \in 0 .. 80 :
                   (Cell(g, n \div 9, n % 9) = 0
                        /\ Cardinality(Cell(cands, n \div 9, n % 9)) = 1)
                       => Cell(cands, n \div 9, n % 9) = {Cell(solution, n \div 9, n % 9)}
            /\ (HintCalled /\ ~IsNoHint(result))
                   => result.number \in Cell(cands, result.row, result.col)

\* The fallback has returned a hint for a grid that agrees with the
\* solution and has a player entry.
C26_Witness ==
    /\ HintCalled
    /\ IsSolution(solution) /\ AgreesWithSolution
    /\ result.technique = "Process of Elimination"
    /\ userEntries # EmptyGrid
    /\ Cardinality(Candidates(CurrentGrid, result.row * 9 + result.col)) >= 2

(***************************************************************************)
(* The history.                                                            *)
(***************************************************************************)
\* C27: after any sequence of saveState, undo, redo and clear the two
\* stacks hold at most maxHistory entries together; saveState empties the
\* redo stack and, when the undo stack would exceed maxHistory, drops its
\* oldest entry; undo and redo each move exactly one entry from one stack
\* to the other, or nothing when their stack is empty.
C27_HistoryIsBounded ==
    [][/\ Len(undoStack') + Len(redoStack') <= maxHistory
       /\ op' = "saveState" =>
              /\ redoStack' = <<>>
              /\ Top(undoStack') \in {FirstState, LaterState}
              /\ IF Len(undoStack) < maxHistory
                 THEN Pop(undoStack') = undoStack
                 ELSE Pop(undoStack') = Tail(undoStack)
       /\ op' = "undo" =>
              IF Len(undoStack) = 0
              THEN UNCHANGED <<undoStack, redoStack>>
              ELSE /\ undoStack' = Pop(undoStack)
                   /\ Pop(redoStack') = redoStack
       /\ op' = "redo" =>
              IF Len(redoStack) = 0
              THEN UNCHANGED <<undoStack, redoStack>>
              ELSE /\ redoStack' = Pop(redoStack)
                   /\ Pop(undoStack') = undoStack
       /\ op' = "clear" => (undoStack' = <<>> /\ redoStack' = <<>>)]_vars

\* saveState has dropped the oldest entry of a full undo stack.
C27_Witness ==
    /\ pc = "history"
    /\ op = "saveState"
    /\ Len(undoStack) = maxHistory
    /\ undoStack[1] = LaterState

\* C28: in a game state with a non-empty undo stack, undo followed by redo
\* gives back the entries, the candidates and both stacks; undo on an empty
\* undo stack and redo on an empty redo stack get null from the history and
\* change nothing.
C28_UndoRedoRoundTrip ==
    pc = "play" =>
        /\ Len(undoStack) > 0 =>
               /\ gameUndo(GameHistory) # GameHistory
               /\ gameRedo(gameUndo(GameHistory)) = GameHistory
        /\ Len(undoStack) = 0 =>
               /\ historyUndo(undoStack) = NoState
               /\ gameUndo(GameHistory) = GameHistory
        /\ Len(redoStack) = 0 => gameRedo(GameHistory) = GameHistory

\* An entry has been made and undone, and redo has brought it back.
C28_Witness ==
    /\ pc = "play"
    /\ op = "redo"
    /\ Len(undoStack) > 0
    /\ redoStack = <<>>
    /\ userEntries # EmptyGrid

(***************************************************************************)
(* Lives and the end of the game.                                          *)
(***************************************************************************)
\* The handlers of the player's input: number entry and erase, candidate
\* drag, clue.
InputHandlers == {"handleNumberInput", "handleDrag", "useClue"}

\* C29: while isGameOver is true no player input (number entry, erase,
\* candidate drag, clue) changes userEntries, candidates, lives or the
\* history stacks, until a new game is started.
C29_NoInputAfterGameOver ==
    [][(isGameOver /\ op' \in InputHandlers)
           => UNCHANGED <<userEntries, candidates, lives, undoStack, redoStack>>]_vars

\* The step is a direct entry of a non-zero number that differs from the
\* solution.
WrongDirectEntry ==
    /\ op' = "handleNumberInput"
    /\ ~candidateMode
    /\ \E n \in 0 .. 80, number \in 1 .. 9 :
           /\ number # Cell(solution, n \div 9, n % 9)
           /\ userEntries' = SetCell(userEntries, n \div 9, n % 9, number)

\* C30: in every reachable state lives is in 0 .. MAX_LIVES and isGameOver
\* holds exactly when lives is 0; a life is lost only by a direct entry of a
\* non-zero number that differs from the solution while instantCheckEnabled
\* and livesEnabled are both on; startNewGame sets lives to MAX_LIVES and
\* isGameOver to false.
C30_LivesAndGameOver ==
    /\ [](lives \in 0 .. MAX_LIVES /\ (isGameOver <=> lives = 0))
    /\ [][/\ lives' # lives =>
                 \/ op' = "startNewGame"
                 \/ /\ lives' = lives - 1
                    /\ WrongDirectEntry
                    /\ instantCheckEnabled /\ livesEnabled
          /\ op' = "startNewGame" => (lives' = MAX_LIVES /\ ~isGameOver')]_vars

\* The third wrong entry has ended the game.
C30_Witness ==
    /\ op = "handleNumberInput"
    /\ isGameOver
    /\ lives = 0

\* A new game has been started after lives were lost.
C30_WitnessNewGame ==
    /\ op = "startNewGame"
    /\ moves = MaxSessionMoves
    /\ lives = MAX_LIVES
    /\ ~isGameOver
    /\ userEntries = EmptyGrid

====
